---- MODULE Spec2Model ----
(***************************************************************************)
(* Model of the maestro.go execution engine: the engine driver             *)
(* (Orchestrator.ExecuteWorkflow), the step scheduler (Executor), the saga *)
(* coordinator (SagaCoordinator.Compensate / Executor.CompensateStep) and  *)
(* the invoker with its per-service circuit breaker (DynamicClient).       *)
(***************************************************************************)
EXTENDS Integers, Sequences, FiniteSets, TLC

(***************************************************************************)
(* Bounds of the model.                                                    *)
(***************************************************************************)
\* largest number of leaf steps of a workflow
MaxLeaves == 3
\* largest number of children of a parallel group
MaxGroup == 2
\* largest number of leaf steps of a workflow handed to the validator
MaxValidated == 2
\* largest number of leaves that wait for a slot of a full worker pool
MaxWaiting == 1
\* largest number of leaf steps of a workflow document handed to the loader
MaxLoaded == 2

(***************************************************************************)
(* Program constants.                                                      *)
(***************************************************************************)
\* capacity of Executor.workerPool
WorkerPoolSize == 10
\* gobreaker.Settings.MaxRequests
BreakerMaxRequests == 3
\* ReadyToTrip: counts.Requests >= 3
TripMinRequests == 3

(***************************************************************************)
(* The workflow documents the engine is run on.                            *)
(***************************************************************************)
\* Workflow.Services: one binary-RPC service and one HTTP service
Services ==
    [grpcA |-> [Type |-> "grpc", Retry |-> [Attempts |-> 5]],
     httpB |-> [Type |-> "http", Retry |-> [Attempts |-> 2]]]

ServiceNames == DOMAIN Services

StepIds == <<"s1", "s2", "s3", "s4", "s5">>
OutputNames == <<"o1", "o2", "o3", "o4", "o5">>

\* *CompensateConfig: nil, or a compensation with its method
NilCompensate == [set |-> FALSE, Method |-> ""]
UndoCompensate == [set |-> TRUE, Method |-> "Undo"]

\* a leaf Step (len(Parallel) = 0)
LeafStep(id, svc, when, out, comp) ==
    [ID |-> id, Service |-> svc, Method |-> "Do", When |-> when,
     Output |-> out, Compensate |-> comp, Parallel |-> <<>>]

\* a parallel group: only Parallel is populated
ParallelStep(children) ==
    [ID |-> "", Service |-> "", Method |-> "", When |-> "",
     Output |-> "", Compensate |-> NilCompensate, Parallel |-> children]

\* the leaves that may stand at position k of a workflow.  The guard is
\* given by the text it renders to ("" = no guard).  A step id may be any
\* string, in particular the name of the step's own service.
LeafChoices(k) ==
    { LeafStep("grpcA", "grpcA", "", OutputNames[k], UndoCompensate),
      LeafStep(StepIds[k], "httpB", "true", OutputNames[k], UndoCompensate),
      LeafStep(StepIds[k], "grpcA", "false", OutputNames[k], UndoCompensate),
      LeafStep(StepIds[k], "httpB", "", "", NilCompensate) }

\* step ids are unique within a workflow
UniqueIds(leaves) ==
    \A i, j \in 1..Len(leaves) : i # j => leaves[i].ID # leaves[j].ID

\* the top-level steps made of `leaves`, cut into groups after the positions
\* in `cuts`: a group of one leaf is that leaf, a longer one a parallel group
RECURSIVE BuildSteps(_, _, _)
BuildSteps(leaves, cuts, from) ==
    IF from > Len(leaves) THEN <<>>
    ELSE LET end == CHOOSE e \in from..Len(leaves) :
                        /\ (e = Len(leaves) \/ e \in cuts)
                        /\ \A x \in from..(e - 1) : x \notin cuts
             st  == IF end = from THEN leaves[from]
                    ELSE ParallelStep(SubSeq(leaves, from, end))
         IN <<st>> \o BuildSteps(leaves, cuts, end + 1)

\* the workflows of up to MaxLeaves leaves whose parallel groups have up to
\* MaxGroup children
Workflows ==
    LET all == UNION { UNION { { [Services |-> Services, Steps |-> BuildSteps(ls, cuts, 1)] :
                                   cuts \in SUBSET (1..(n - 1)) } :
                               ls \in { l \in [1..n -> UNION { LeafChoices(k) : k \in 1..n }] :
                                          /\ \A k \in 1..n : l[k] \in LeafChoices(k)
                                          /\ UniqueIds(l) } } :
                       n \in 1..MaxLeaves }
    IN { w \in all : \A i \in 1..Len(w.Steps) : Len(w.Steps[i].Parallel) <= MaxGroup }

\* no workflow
NoWorkflow == [Services |-> Services, Steps |-> <<>>]

\* the leaf steps of a list of steps
RECURSIVE LeavesOf(_)
LeavesOf(steps) ==
    IF Len(steps) = 0 THEN {}
    ELSE (IF Len(Head(steps).Parallel) > 0
          THEN { Head(steps).Parallel[i] : i \in 1..Len(Head(steps).Parallel) }
          ELSE { Head(steps) })
         \cup LeavesOf(Tail(steps))

VARIABLES
    document,       \* the workflow document handed to Orchestrator.LoadWorkflow
    loaded,         \* the error LoadWorkflow returned ("unloaded" before the call)
    gor,            \* per goroutine of a parallel group: its position
    mu,             \* per call of executeParallelSteps: the holder of its mutex
    worker,         \* per leaf sharing the Executor: its position in executeSingleStep
    resolving,      \* the call of the template resolver under way
    resolved,       \* what the call returned ("none" before it returns)
    call,           \* the call under way of a function looked at on its own
    returned,       \* what that call returned
    connPool,       \* a ConnectionPool: its size and its counter
    workflows,      \* Orchestrator.workflows: the loaded workflows by name
    registered,     \* ServiceRegistry.services: the names registered
    validated,      \* the Workflow handed to Validator.ValidateDAG
    validation,     \* the error ValidateDAG returned ("unchecked" before the call)
    wf,             \* the loaded Workflow (immutable during the run)
    ctx,            \* the workflow's cancellation scope: "live", "cancelled", "deadline"
    gctx,           \* errgroup of the current group: its first error (its scope is cancelled), or nil
    dpc,            \* position of ExecuteWorkflow
    stepIdx,        \* index of the top-level step of the for loop
    task,           \* per leaf of the current top-level step: position in ExecuteStep
    workerPool,     \* number of worker-pool slots taken
    StepOutputs,    \* execCtx.StepOutputs
    ExecutedSteps,  \* execCtx.ExecutedSteps
    breaker,        \* per service: the gobreaker state and counts
    healthy,        \* per service: ServiceEntry.Healthy
    compIdx,        \* number of the loop iteration of SagaCoordinator.Compensate
    compErrors,     \* compensationErrors of SagaCoordinator.Compensate
    compCall,       \* the compensation call in flight
    result,         \* the WorkflowResult and the returned error
    log,            \* history: the InvokeMethod calls of CompensateStep, in order
    fwdOk           \* history: ids of the leaves whose forward call succeeded

\* the variables of the parts that are looked at on their own: the loader,
\* the goroutines of a parallel group, the worker pool and the resolver
\* the variables of the functions and objects looked at on their own
unitVars == <<call, returned, connPool, workflows, registered>>

sideVars == <<document, loaded, gor, mu, worker, resolving, resolved, unitVars>>

\* the variables of the engine, but for the worker pool
engineVarsButPool ==
    <<validated, validation, wf, ctx, gctx, dpc, stepIdx, task, StepOutputs,
      ExecutedSteps, breaker, healthy, compIdx, compErrors, compCall,
      result, log, fwdOk>>

engineVars == <<engineVarsButPool, workerPool>>

vars == <<sideVars, engineVars>>

\* no call of the resolver, and no answer of it
NoCall == [place |-> "none"]
NoAnswer == [done |-> FALSE, err |-> FALSE, text |-> "", cond |-> FALSE, scope |-> {}]

\* no call under way, no pool, nothing loaded and nothing registered
UnitIdle ==
    /\ call = <<>>
    /\ returned = <<>>
    /\ connPool = <<>>
    /\ workflows = <<>>
    /\ registered = {}

\* the parts looked at on their own stand idle
SideIdle ==
    /\ document = <<>>
    /\ loaded = "unloaded"
    /\ gor = <<>>
    /\ mu = <<>>
    /\ worker = <<>>
    /\ resolving = NoCall
    /\ resolved = NoAnswer
    /\ UnitIdle

(***************************************************************************)
(* Values, errors and the error classifier.                                *)
(***************************************************************************)
\* the errors a leaf or a compensation can end with
NoError == "nil"

\* a classifier that takes every error for retryable
isRetryableErrorAlways(err) == TRUE

\* isRetryableError: the gRPC codes Unavailable, DeadlineExceeded and
\* ResourceExhausted; every error that carries no gRPC status is terminal
isRetryableError(err) == err \in {"unavailable", "deadline", "resource_exhausted"}

\* the error a call returns when its context is done: context.Canceled for
\* a cancellation, context.DeadlineExceeded for the workflow timeout
CtxError(c) == IF c = "deadline" THEN "deadline" ELSE "cancelled"

(***************************************************************************)
(* The current top-level step and its leaves.                              *)
(***************************************************************************)
CurStep == wf.Steps[stepIdx]
IsParallel == Len(CurStep.Parallel) > 0
Kids == IF IsParallel THEN 1..Len(CurStep.Parallel) ELSE {1}
CurLeaf(j) == IF IsParallel THEN CurStep.Parallel[j] ELSE CurStep

\* the context handed to a leaf: the workflow scope, or inside a parallel
\* group the errgroup scope derived from it
LeafCtx == IF ctx # "live" THEN ctx
           ELSE IF IsParallel /\ gctx # NoError THEN "cancelled" ELSE "live"

\* histories of a leaf: calls, the number of its InvokeMethod calls; sent,
\* the number of them that put a request on the wire; expired, whether the
\* expiry of the breaker's generation passed since its first call
NoTask == [pc |-> "none", attempt |-> 0, err |-> NoError, stale |-> FALSE,
           calls |-> 0, sent |-> 0, expired |-> FALSE]
IdleTask == [pc |-> "idle", attempt |-> 0, err |-> NoError, stale |-> FALSE,
             calls |-> 0, sent |-> 0, expired |-> FALSE]

(***************************************************************************)
(* The circuit breaker of a service (gobreaker, with the settings of       *)
(* RegisterService).                                                       *)
(***************************************************************************)
ClosedBreaker ==
    [state |-> "closed", Requests |-> 0, TotalFailures |-> 0, ConsecutiveSuccesses |-> 0]

\* a breaker that trips on the first failure
ReadyToTripOnFirstFailure(counts) == counts.TotalFailures >= 1

\* Settings.ReadyToTrip: at least 3 requests and a failure ratio >= 0.6
ReadyToTrip(counts) ==
    counts.Requests >= TripMinRequests /\ counts.TotalFailures * 5 >= counts.Requests * 3

\* setState: the new state starts a new generation with cleared counts
SetState(cb, to) ==
    [state |-> to, Requests |-> 0, TotalFailures |-> 0, ConsecutiveSuccesses |-> 0]

\* a callback that only follows the breaker to open
OnStateChangeOpenOnly(h, to) == IF to = "open" THEN FALSE ELSE h

\* Settings.OnStateChange: the health flag follows open and closed
OnStateChange(h, to) ==
    IF to = "open" THEN FALSE ELSE IF to = "closed" THEN TRUE ELSE h

\* a breaker that admits requests while it is open
BreakerAdmitsWhileOpen(cb) ==
    ~(cb.state = "half-open" /\ cb.Requests >= BreakerMaxRequests)

\* beforeRequest: reject while open, and in half-open once MaxRequests
\* trials were admitted; otherwise count the request
BreakerAdmits(cb) ==
    /\ cb.state # "open"
    /\ ~(cb.state = "half-open" /\ cb.Requests >= BreakerMaxRequests)

BeforeRequest(cb) ==
    IF BreakerAdmits(cb) THEN [cb EXCEPT !.Requests = @ + 1] ELSE cb

BreakerRejection(cb) == IF cb.state = "open" THEN "open_state" ELSE "too_many_requests"

\* currentState(now): the state is brought up to date with the clock.
\* expired: the expiry of the current generation has passed, that is the
\* Interval (10 s) of a closed breaker, whose counts are then cleared, or the
\* Timeout (30 s) of an open one, which then becomes half-open.
CurrentState(cb, expired) ==
    IF ~expired \/ cb.state = "half-open" THEN cb
    ELSE IF cb.state = "open" THEN SetState(cb, "half-open")
    ELSE SetState(cb, "closed")

\* onSuccess and onFailure of afterRequest, for a request of the current
\* generation
AfterRequest(cb, success) ==
    IF success
    THEN IF cb.state = "half-open" /\ cb.ConsecutiveSuccesses + 1 >= BreakerMaxRequests
         THEN SetState(cb, "closed")
         ELSE [cb EXCEPT !.ConsecutiveSuccesses = @ + 1]
    ELSE IF cb.state = "half-open"
         THEN SetState(cb, "open")
         ELSE LET c == [cb EXCEPT !.TotalFailures = @ + 1, !.ConsecutiveSuccesses = 0]
              IN IF ReadyToTrip(c) THEN SetState(c, "open") ELSE c

\* the health flag after the breaker went from cb to cb2
HealthAfter(h, cb, cb2) ==
    IF cb2.state # cb.state THEN OnStateChange(h, cb2.state) ELSE h

(***************************************************************************)
(* DynamicClient.InvokeMethod, in two halves: up to the moment the call is *)
(* on the wire, and the return of the call.                                *)
(***************************************************************************)
\* ServiceRegistry.GetService
Registered(name) == name \in DOMAIN wf.Services

\* The start of InvokeMethod(name) under context state c.  inflight: the
\* call is on the wire and its return is pending; otherwise err is the error
\* returned at once.  outbound: a request left the process.  newGen: the
\* breaker of name started a new generation.
InvokeStart(name, c, expired) ==
    IF ~Registered(name)
    THEN [inflight |-> FALSE, outbound |-> FALSE, err |-> "service_not_found",
          breaker |-> breaker, healthy |-> healthy, newGen |-> FALSE]
    ELSE IF wf.Services[name].Type = "http"
    THEN \* invokeHTTP: no breaker and the context is dropped
         [inflight |-> TRUE, outbound |-> TRUE, err |-> NoError,
          breaker |-> breaker, healthy |-> healthy, newGen |-> FALSE]
    ELSE LET cb0 == CurrentState(breaker[name], expired)
             gen0 == expired /\ breaker[name].state # "half-open"
         IN IF ~BreakerAdmits(cb0)
            THEN [inflight |-> FALSE, outbound |-> FALSE, err |-> BreakerRejection(cb0),
                  breaker |-> [breaker EXCEPT ![name] = cb0],
                  healthy |-> healthy, newGen |-> gen0]
            ELSE IF c # "live"
            THEN \* the operation runs inside the breaker and the RPC fails on
                 \* the done context before anything is sent
                 LET cb == AfterRequest(BeforeRequest(cb0), FALSE)
                     h1 == HealthAfter(healthy[name], cb0, cb)
                     h2 == IF CtxError(c) = "deadline" THEN FALSE ELSE h1
                 IN [inflight |-> FALSE, outbound |-> FALSE, err |-> CtxError(c),
                     breaker |-> [breaker EXCEPT ![name] = cb],
                     healthy |-> [healthy EXCEPT ![name] = h2],
                     newGen |-> gen0 \/ cb.state # cb0.state]
            ELSE [inflight |-> TRUE, outbound |-> TRUE, err |-> NoError,
                  breaker |-> [breaker EXCEPT ![name] = BeforeRequest(cb0)],
                  healthy |-> healthy, newGen |-> gen0]

\* the outcomes the remote side or the context can give a call in flight
Outcomes(name, c) ==
    IF wf.Services[name].Type = "http" THEN {NoError, "http_error"}
    ELSE IF c # "live" THEN {CtxError(c)}
    ELSE {NoError, "unavailable", "business_error"}

\* The return of a call in flight to `name` with outcome err.  stale: the
\* breaker has started a new generation since the call was admitted, so
\* afterRequest ignores its result.
InvokeReturn(name, err, stale, expired) ==
    IF wf.Services[name].Type = "http"
    THEN [breaker |-> breaker, healthy |-> healthy, newGen |-> FALSE]
    ELSE LET cb0 == CurrentState(breaker[name], expired)
             gen0 == expired /\ breaker[name].state # "half-open"
             cb == IF stale \/ gen0 THEN cb0 ELSE AfterRequest(cb0, err = NoError)
             h1 == HealthAfter(healthy[name], cb0, cb)
             h2 == IF err \in {"unavailable", "deadline"} THEN FALSE ELSE h1
         IN [breaker |-> [breaker EXCEPT ![name] = cb],
             healthy |-> [healthy EXCEPT ![name] = h2],
             newGen |-> gen0 \/ cb.state # cb0.state]

\* the clock reading of a call to name moves its breaker to a new generation
Expires(name, expired) ==
    /\ expired
    /\ Registered(name)
    /\ wf.Services[name].Type # "http"
    /\ breaker[name].state # "half-open"

\* a record of the history of the InvokeMethod calls of CompensateStep:
\* the entry of ExecutedSteps it is for and the arguments of the call
LogEntry(index, name, method, start) ==
    [index |-> index, target |-> name, method |-> method, outbound |-> start.outbound]

(***************************************************************************)
(* The execution context.                                                  *)
(***************************************************************************)
AllOutputNames == { OutputNames[k] : k \in 1..Len(OutputNames) }

\* StepOutputs[name] = value
Put(outs, name, value) == [outs EXCEPT ![name] = value]
Recorded(outs, name) == outs[name] # "unset"

\* Executor.evaluateCondition on the rendered guard text: the value of a
\* recorded boolean output of that name, else whether the text is "true"
evaluateCondition(rendered, outs) ==
    IF rendered \in DOMAIN outs /\ outs[rendered] \in {"bool_true", "bool_false"}
    THEN outs[rendered] = "bool_true"
    ELSE rendered = "true"

\* a commit that forgets to record the output
CommitOutputsNever(outs, step, output) == outs

\* the commit of a returned step result: the output under step.Output and
\* an ExecutedStep when the step declares a compensation
CommitOutputs(outs, step, output) ==
    IF step.Output # "" THEN Put(outs, step.Output, output) ELSE outs

CommitExecuted(execs, step, output) ==
    IF step.Compensate.set
    THEN Append(execs, [StepID |-> step.ID, Output |-> output,
                        Compensation |-> step.Compensate, Compensated |-> FALSE])
    ELSE execs

\* the breaker of service name started a new generation: the calls in
\* flight to it belong to an old generation
MarkStale(t, name) ==
    [j \in DOMAIN t |->
        IF t[j].pc = "incall" /\ CurLeaf(j).Service = name
        THEN [t[j] EXCEPT !.stale = TRUE] ELSE t[j]]

Stale(t, name, newGen) == IF newGen THEN MarkStale(t, name) ELSE t

\* a cap read as the number of retries after the first attempt
RetryAttemptsAsRetries(service) == service.Retry.Attempts + 1

\* retryAttempts of executeSingleStep
RetryAttempts(service) ==
    IF service.Retry.Attempts > 1 THEN service.Retry.Attempts ELSE 1

(***************************************************************************)
(* The result of ExecuteWorkflow.                                          *)
(***************************************************************************)
\* the WorkflowResult ExecuteWorkflow builds (Status, Error), with the error
\* of the failed step (stepErr), the error ExecuteWorkflow returns
\* (Returned) and whether an output template failed to render (OutputErr)
NewResult ==
    [Status |-> "running", Error |-> NoError, stepErr |-> NoError,
     Returned |-> NoError, OutputErr |-> FALSE]

\* the outcomes of Parser.ResolveTemplate on the workflow's output templates
RenderOutcomes == {"rendered", "error"}

\* a driver that reports the error of Compensate when there is one
FailureErrorOfCompensate(err, errs) == IF Len(errs) > 0 THEN "compensation_failed" ELSE err

\* the error ExecuteWorkflow stores and returns after a failed step
FailureError(err, errs) == err

\* a driver that ignores the error of Compensate
CompensationStatusIgnoresError(errs) == "compensated"

\* the status ExecuteWorkflow gives a failed run from the error of Compensate
CompensationStatus(errs) == IF Len(errs) > 0 THEN "failed" ELSE "compensated"

(***************************************************************************)
(* Initial state: ExecuteWorkflow has built the execution context and the  *)
(* result and stands before the first iteration of its loop.               *)
(***************************************************************************)
Init ==
    /\ SideIdle
    /\ validated = NoWorkflow
    /\ validation = "unchecked"
    /\ wf \in Workflows
    /\ ctx = "live"
    /\ gctx = NoError
    /\ dpc = "loop"
    /\ stepIdx = 1
    /\ task = [j \in 1..MaxLeaves |-> NoTask]
    /\ workerPool = 0
    /\ StepOutputs = [n \in AllOutputNames |-> "unset"]
    /\ ExecutedSteps = <<>>
    /\ breaker = [n \in ServiceNames |-> ClosedBreaker]
    /\ healthy = [n \in ServiceNames |-> TRUE]
    /\ compIdx = 0
    /\ compErrors = <<>>
    /\ compCall = [active |-> FALSE, stale |-> FALSE]
    /\ result = NewResult
    /\ log = <<>>
    /\ fwdOk = {}

(***************************************************************************)
(* Orchestrator.ExecuteWorkflow: the loop over the top-level steps.        *)
(***************************************************************************)
\* a loop that never looks at the context
CtxDoneNever(c) == FALSE

\* the select on ctx.Done() at the top of the loop
CtxDone(c) == c # "live"

\* the select at the top of the loop finds the scope done: the run ends
\* cancelled, with the context's error
DriverCancelled ==
    /\ dpc = "loop"
    /\ stepIdx <= Len(wf.Steps)
    /\ CtxDone(ctx)
    /\ result' = [result EXCEPT !.Status = "cancelled", !.Error = CtxError(ctx),
                                !.Returned = CtxError(ctx)]
    /\ dpc' = "done"
    /\ UNCHANGED <<sideVars, validated, validation, wf, ctx, gctx, stepIdx, task, workerPool, StepOutputs, ExecutedSteps,
                   breaker, healthy, compIdx, compErrors, compCall, log, fwdOk>>

\* the loop calls ExecuteStep on the next step
DriverStartStep ==
    /\ dpc = "loop"
    /\ stepIdx <= Len(wf.Steps)
    /\ ~CtxDone(ctx)
    /\ dpc' = "step"
    /\ gctx' = NoError
    /\ task' = [j \in 1..MaxLeaves |-> IF j \in Kids THEN IdleTask ELSE NoTask]
    /\ UNCHANGED <<sideVars, validated, validation, wf, ctx, stepIdx, workerPool, StepOutputs, ExecutedSteps, breaker,
                   healthy, compIdx, compErrors, compCall, result, log, fwdOk>>

\* the loop is over: the output templates are rendered, one that fails is
\* logged and left out, and the result is a success
DriverFinish ==
    /\ dpc = "loop"
    /\ stepIdx > Len(wf.Steps)
    /\ \E rendered \in RenderOutcomes :
           result' = [result EXCEPT !.Status = "success",
                                    !.OutputErr = (rendered = "error")]
    /\ dpc' = "done"
    /\ UNCHANGED <<sideVars, validated, validation, wf, ctx, gctx, stepIdx, task, workerPool, StepOutputs, ExecutedSteps,
                   breaker, healthy, compIdx, compErrors, compCall, log, fwdOk>>

\* a Wait that returns at the first error of a child
ReturnedOrFailed ==
    \/ \A j \in Kids : task[j].pc \in {"ok", "skip", "err"}
    \/ \E j \in Kids : task[j].pc = "err"

AllReturned == \A j \in Kids : task[j].pc \in {"ok", "skip", "err"}
AnyFailed == \E j \in Kids : task[j].pc = "err"

\* ExecuteStep returned a result: the driver commits it and moves on
DriverStepOk ==
    /\ dpc = "step"
    /\ AllReturned /\ ~AnyFailed
    /\ LET output == IF IsParallel THEN "combined"
                     ELSE IF task[1].pc = "skip" THEN "nil" ELSE "val"
       IN /\ StepOutputs' = CommitOutputs(StepOutputs, CurStep, output)
          /\ ExecutedSteps' = CommitExecuted(ExecutedSteps, CurStep, output)
    /\ stepIdx' = stepIdx + 1
    /\ dpc' = "loop"
    /\ task' = [j \in 1..MaxLeaves |-> NoTask]
    /\ UNCHANGED <<sideVars, validated, validation, wf, ctx, gctx, workerPool, breaker, healthy, compIdx,
                   compErrors, compCall, result, log, fwdOk>>

\* ExecuteStep returned an error: the driver calls Compensate, which
\* returns nil at once when nothing was executed
DriverStepFailed ==
    /\ dpc = "step"
    /\ AllReturned /\ AnyFailed
    /\ LET err == IF IsParallel THEN gctx ELSE task[1].err
       IN IF Len(ExecutedSteps) = 0
          THEN /\ result' = [result EXCEPT !.Status = CompensationStatus(<<>>),
                                            !.Error = FailureError(err, <<>>),
                                            !.Returned = FailureError(err, <<>>),
                                            !.stepErr = err]
               /\ dpc' = "done"
               /\ UNCHANGED <<compIdx, compErrors>>
          ELSE /\ result' = [result EXCEPT !.stepErr = err]
               /\ dpc' = "comp"
               /\ compIdx' = 1
               /\ compErrors' = <<>>
    /\ task' = [j \in 1..MaxLeaves |-> NoTask]
    /\ UNCHANGED <<sideVars, validated, validation, wf, ctx, gctx, stepIdx, workerPool, StepOutputs, ExecutedSteps,
                   breaker, healthy, compCall, log, fwdOk>>

(***************************************************************************)
(* Executor.ExecuteStep and executeSingleStep for one leaf; inside a       *)
(* parallel group the goroutine of executeParallelSteps around it.         *)
(***************************************************************************)
\* the goroutine of a parallel child commits its result under the mutex
ChildOutputs(outs, step, output) ==
    IF IsParallel THEN CommitOutputs(outs, step, output) ELSE outs

ChildExecuted(execs, step, output) ==
    IF IsParallel THEN CommitExecuted(execs, step, output) ELSE execs

\* ExecuteStep up to the retry loop: the guard is evaluated and a false
\* guard returns a result with a nil output; otherwise executeSingleStep
\* takes a worker-pool slot (blocking while none is free), looks up the
\* service and resolves the input
TaskBegin(j) ==
    /\ dpc = "step"
    /\ task[j].pc = "idle"
    /\ LET st == CurLeaf(j)
       IN IF st.When = "" \/ evaluateCondition(st.When, StepOutputs)
          THEN /\ workerPool < WorkerPoolSize
               /\ workerPool' = workerPool + 1
               /\ task' = [task EXCEPT ![j].pc = "attempt", ![j].attempt = 1]
               /\ UNCHANGED <<StepOutputs, ExecutedSteps>>
          ELSE /\ task' = [task EXCEPT ![j].pc = "skip"]
               /\ StepOutputs' = ChildOutputs(StepOutputs, st, "nil")
               /\ ExecutedSteps' = ChildExecuted(ExecutedSteps, st, "nil")
               /\ UNCHANGED workerPool
    /\ UNCHANGED <<sideVars, validated, validation, wf, ctx, gctx, dpc, stepIdx, breaker, healthy, compIdx,
                   compErrors, compCall, result, log, fwdOk>>

\* the retry loop after a failed attempt: another attempt while the cap is
\* not reached and the error is retryable, else the leaf returns the error
AfterFailure(t, j, err) ==
    IF t.attempt < RetryAttempts(wf.Services[CurLeaf(j).Service]) /\ isRetryableError(err)
    THEN [t EXCEPT !.pc = "attempt", !.attempt = @ + 1, !.err = err, !.stale = FALSE]
    ELSE [t EXCEPT !.pc = "err", !.err = err, !.stale = FALSE]

\* a group that does not keep the error of a child
GroupErrorDropped(g, err) == g

\* errgroup: the first child error is kept and cancels the group's scope
GroupError(g, err) == IF IsParallel /\ g = NoError THEN err ELSE g

\* one attempt of the retry loop (after its backoff sleep): InvokeMethod is
\* called and either puts the call on the wire or fails at once
TaskInvoke(j) ==
    /\ dpc = "step"
    /\ task[j].pc = "attempt"
    /\ \E expired \in BOOLEAN :
       LET st == CurLeaf(j)
           start == InvokeStart(st.Service, LeafCtx, expired)
           t1 == [task[j] EXCEPT !.calls = @ + 1,
                                 !.sent = IF start.outbound THEN @ + 1 ELSE @,
                                 !.expired = @ \/ Expires(st.Service, expired)]
           t2 == IF start.inflight THEN [t1 EXCEPT !.pc = "incall", !.stale = FALSE]
                 ELSE AfterFailure(t1, j, start.err)
       IN /\ breaker' = start.breaker
          /\ healthy' = start.healthy
          /\ task' = [Stale(task, st.Service, start.newGen) EXCEPT ![j] = t2]
          /\ workerPool' = IF t2.pc = "err" THEN workerPool - 1 ELSE workerPool
          /\ gctx' = IF t2.pc = "err" THEN GroupError(gctx, t2.err) ELSE gctx
    /\ UNCHANGED <<sideVars, validated, validation, wf, ctx, dpc, stepIdx, StepOutputs, ExecutedSteps, compIdx, compErrors,
                   compCall, result, log, fwdOk>>

\* the call on the wire returns
TaskReturn(j) ==
    /\ dpc = "step"
    /\ task[j].pc = "incall"
    /\ \E err \in Outcomes(CurLeaf(j).Service, LeafCtx), expired \in BOOLEAN :
         LET st == CurLeaf(j)
             ret == InvokeReturn(st.Service, err, task[j].stale, expired)
             t1 == [task[j] EXCEPT !.expired = @ \/ Expires(st.Service, expired)]
             t2 == IF err = NoError THEN [t1 EXCEPT !.pc = "ok", !.stale = FALSE]
                   ELSE AfterFailure(t1, j, err)
         IN /\ breaker' = ret.breaker
            /\ healthy' = ret.healthy
            /\ task' = [Stale(task, st.Service, ret.newGen) EXCEPT ![j] = t2]
            /\ workerPool' = IF t2.pc \in {"ok", "err"} THEN workerPool - 1 ELSE workerPool
            /\ gctx' = IF t2.pc = "err" THEN GroupError(gctx, t2.err) ELSE gctx
            /\ fwdOk' = IF err = NoError THEN fwdOk \cup {st.ID} ELSE fwdOk
            /\ StepOutputs' = IF err = NoError THEN ChildOutputs(StepOutputs, st, "val")
                              ELSE StepOutputs
            /\ ExecutedSteps' = IF err = NoError THEN ChildExecuted(ExecutedSteps, st, "val")
                                ELSE ExecutedSteps
    /\ UNCHANGED <<sideVars, validated, validation, wf, ctx, dpc, stepIdx, compIdx, compErrors, compCall, result, log>>

(***************************************************************************)
(* SagaCoordinator.Compensate and Executor.CompensateStep.                 *)
(***************************************************************************)
\* a loop of Compensate that runs forward
CompensateOrderForward(n) == [k \in 1..n |-> k]

\* the loop of Compensate: iteration k visits entry n + 1 - k
CompensateOrder(n) == [k \in 1..n |-> n + 1 - k]

CompIndex == CompensateOrder(Len(ExecutedSteps))[compIdx]

\* the service name CompensateStep hands to InvokeMethod
CompensateTarget(step) == step.StepID

\* a loop of Compensate that stops at the first failed compensation (break)
AfterCompensateErrorBreak(k, n) == n + 1

\* the iteration after one whose compensation failed (continue)
AfterCompensateError(k, n) == k + 1

\* a loop that does not look at the compensated flag
SkipsEntryIgnoresFlag(step) == ~step.Compensation.set

\* the entries the loop of Compensate passes over (and for which
\* CompensateStep would return at once)
SkipsEntry(step) == ~step.Compensation.set \/ step.Compensated

\* Compensate is running: the call ExecuteWorkflow makes ("comp") or a
\* second call on the same context ("comp2")
InCompensate == dpc \in {"comp", "comp2"}

\* one iteration of the loop of Compensate: an entry without compensation
\* or already compensated is skipped; otherwise CompensateStep calls
\* InvokeMethod
CompensateNext ==
    /\ InCompensate
    /\ compIdx <= Len(ExecutedSteps)
    /\ ~compCall.active
    /\ \E expired \in BOOLEAN :
       LET step == ExecutedSteps[CompIndex]
           name == CompensateTarget(step)
           start == InvokeStart(name, ctx, expired)
       IN IF SkipsEntry(step)
          THEN /\ compIdx' = compIdx + 1
               /\ UNCHANGED <<log, breaker, healthy, compCall, compErrors>>
          ELSE /\ log' = Append(log, LogEntry(CompIndex, name, step.Compensation.Method, start))
               /\ breaker' = start.breaker
               /\ healthy' = start.healthy
               /\ IF start.inflight
                  THEN /\ compCall' = [active |-> TRUE, stale |-> FALSE]
                       /\ UNCHANGED <<compIdx, compErrors>>
                  ELSE /\ compErrors' = Append(compErrors, [step |-> CompIndex, err |-> start.err])
                       /\ compIdx' = AfterCompensateError(compIdx, Len(ExecutedSteps))
                       /\ UNCHANGED compCall
    /\ UNCHANGED <<sideVars, validated, validation, wf, ctx, gctx, dpc, stepIdx, task, workerPool, StepOutputs,
                   ExecutedSteps, result, fwdOk>>

\* the compensation call on the wire returns
CompensateReturn ==
    /\ InCompensate
    /\ compCall.active
    /\ \E err \in Outcomes(CompensateTarget(ExecutedSteps[CompIndex]), ctx), expired \in BOOLEAN :
         LET ret == InvokeReturn(CompensateTarget(ExecutedSteps[CompIndex]), err,
                                 compCall.stale, expired)
         IN /\ breaker' = ret.breaker
            /\ healthy' = ret.healthy
            /\ IF err = NoError
               THEN /\ ExecutedSteps' = [ExecutedSteps EXCEPT ![CompIndex].Compensated = TRUE]
                    /\ compIdx' = compIdx + 1
                    /\ UNCHANGED compErrors
               ELSE /\ compErrors' = Append(compErrors, [step |-> CompIndex, err |-> err])
                    /\ compIdx' = AfterCompensateError(compIdx, Len(ExecutedSteps))
                    /\ UNCHANGED ExecutedSteps
    /\ compCall' = [active |-> FALSE, stale |-> FALSE]
    /\ UNCHANGED <<sideVars, validated, validation, wf, ctx, gctx, dpc, stepIdx, task, workerPool, StepOutputs, result,
                   log, fwdOk>>

\* Compensate returns and ExecuteWorkflow sets the status and the error
CompensateDone ==
    /\ dpc = "comp"
    /\ compIdx > Len(ExecutedSteps)
    /\ ~compCall.active
    /\ result' = [result EXCEPT !.Status = CompensationStatus(compErrors),
                                !.Error = FailureError(result.stepErr, compErrors),
                                !.Returned = FailureError(result.stepErr, compErrors)]
    /\ dpc' = "done"
    /\ UNCHANGED <<sideVars, validated, validation, wf, ctx, gctx, stepIdx, task, workerPool, StepOutputs, ExecutedSteps,
                   breaker, healthy, compIdx, compErrors, compCall, log, fwdOk>>

(***************************************************************************)
(* The environment: cancellation of the workflow's scope.                  *)
(***************************************************************************)
\* the caller cancels the context handed to ExecuteWorkflow
CallerCancel ==
    /\ dpc # "done"
    /\ ctx = "live"
    /\ ctx' = "cancelled"
    /\ UNCHANGED <<sideVars, validated, validation, wf, gctx, dpc, stepIdx, task, workerPool, StepOutputs, ExecutedSteps,
                   breaker, healthy, compIdx, compErrors, compCall, result, log, fwdOk>>

\* the workflow timeout of context.WithTimeout expires
WorkflowTimeout ==
    /\ dpc # "done"
    /\ ctx = "live"
    /\ ctx' = "deadline"
    /\ UNCHANGED <<sideVars, validated, validation, wf, gctx, dpc, stepIdx, task, workerPool, StepOutputs, ExecutedSteps,
                   breaker, healthy, compIdx, compErrors, compCall, result, log, fwdOk>>

Next ==
    \/ DriverCancelled
    \/ DriverStartStep
    \/ DriverFinish
    \/ DriverStepOk
    \/ DriverStepFailed
    \/ \E j \in 1..MaxLeaves : TaskBegin(j)
    \/ \E j \in 1..MaxLeaves : TaskInvoke(j)
    \/ \E j \in 1..MaxLeaves : TaskReturn(j)
    \/ CompensateNext
    \/ CompensateReturn
    \/ CompensateDone
    \/ CallerCancel
    \/ WorkflowTimeout

Spec == Init /\ [][Next]_vars

(***************************************************************************)
(* SagaCoordinator.Compensate called twice in a row on one                 *)
(* ExecutionContext.                                                       *)
(***************************************************************************)
\* the ExecutedSteps left by the commits of all the steps of a workflow
RECURSIVE CommitAll(_)
CommitAll(leaves) ==
    IF Len(leaves) = 0 THEN <<>>
    ELSE CommitExecuted(<<>>, Head(leaves),
                        IF Head(leaves).When = "false" THEN "nil" ELSE "val")
         \o CommitAll(Tail(leaves))

\* the leaves of a list of steps, in declaration order
RECURSIVE LeafSeq(_)
LeafSeq(steps) ==
    IF Len(steps) = 0 THEN <<>>
    ELSE (IF Len(Head(steps).Parallel) > 0 THEN Head(steps).Parallel ELSE <<Head(steps)>>)
         \o LeafSeq(Tail(steps))

\* Compensate has just been called on the context of a workflow whose steps
\* were all committed
SagaInit ==
    /\ SideIdle
    /\ validated = NoWorkflow
    /\ validation = "unchecked"
    /\ wf \in Workflows
    /\ ctx = "live"
    /\ gctx = NoError
    /\ dpc = "comp"
    /\ stepIdx = Len(wf.Steps) + 1
    /\ task = [j \in 1..MaxLeaves |-> NoTask]
    /\ workerPool = 0
    /\ StepOutputs = [n \in AllOutputNames |->
                         IF \E l \in LeavesOf(wf.Steps) : l.Output = n
                         THEN (IF \E l \in LeavesOf(wf.Steps) : l.Output = n /\ l.When = "false"
                               THEN "nil" ELSE "val")
                         ELSE "unset"]
    /\ ExecutedSteps = CommitAll(LeafSeq(wf.Steps))
    /\ breaker = [n \in ServiceNames |-> ClosedBreaker]
    /\ healthy = [n \in ServiceNames |-> TRUE]
    /\ compIdx = 1
    /\ compErrors = <<>>
    /\ compCall = [active |-> FALSE, stale |-> FALSE]
    /\ result = NewResult
    /\ log = <<>>
    /\ fwdOk = { l.ID : l \in { x \in LeavesOf(wf.Steps) : x.When # "false" } }

\* the first call returns and Compensate is called again on the context
CompensateAgain ==
    /\ dpc = "comp"
    /\ compIdx > Len(ExecutedSteps)
    /\ ~compCall.active
    /\ dpc' = "comp2"
    /\ compIdx' = 1
    /\ compErrors' = <<>>
    /\ UNCHANGED <<sideVars, validated, validation, wf, ctx, gctx, stepIdx, task, workerPool, StepOutputs, ExecutedSteps,
                   breaker, healthy, compCall, result, log, fwdOk>>

\* the second call returns
SecondCompensateDone ==
    /\ dpc = "comp2"
    /\ compIdx > Len(ExecutedSteps)
    /\ ~compCall.active
    /\ dpc' = "done"
    /\ UNCHANGED <<sideVars, validated, validation, wf, ctx, gctx, stepIdx, task, workerPool, StepOutputs, ExecutedSteps,
                   breaker, healthy, compIdx, compErrors, compCall, result, log, fwdOk>>

SagaNext ==
    \/ CompensateNext
    \/ CompensateReturn
    \/ CompensateAgain
    \/ SecondCompensateDone
    \/ CallerCancel
    \/ WorkflowTimeout

SagaSpec == SagaInit /\ [][SagaNext]_vars

(***************************************************************************)
(* The engine run on workflows whose leaves all call the binary-RPC        *)
(* service, so that its breaker sees enough calls to open, to half-open    *)
(* and to close again.                                                     *)
(***************************************************************************)
\* the leaves that may stand at position k: an unguarded call of grpcA
BreakerLeafChoices(k) ==
    { LeafStep("grpcA", "grpcA", "", OutputNames[k], UndoCompensate),
      LeafStep(StepIds[k], "grpcA", "", OutputNames[k], UndoCompensate) }

\* the number of leaves of these workflows: three failures open the
\* breaker, and a fourth call has to meet three trials
BreakerLeaves == MaxLeaves + 1

\* the workflows of that many leaves: all in sequence, or the first two or
\* the last two in a parallel group
BreakerWorkflows ==
    LET n == BreakerLeaves
    IN UNION { { [Services |-> Services, Steps |-> BuildSteps(ls, cuts, 1)] :
                   cuts \in { 1..(n - 1), 2..(n - 1), 1..(n - 2) } } :
               ls \in { l \in [1..n -> UNION { BreakerLeafChoices(k) : k \in 1..n }] :
                          /\ \A k \in 1..n : l[k] \in BreakerLeafChoices(k)
                          /\ UniqueIds(l) } }

BreakerInit ==
    /\ SideIdle
    /\ validated = NoWorkflow
    /\ validation = "unchecked"
    /\ wf \in BreakerWorkflows
    /\ ctx = "live"
    /\ gctx = NoError
    /\ dpc = "loop"
    /\ stepIdx = 1
    /\ task = [j \in 1..MaxLeaves |-> NoTask]
    /\ workerPool = 0
    /\ StepOutputs = [n \in AllOutputNames |-> "unset"]
    /\ ExecutedSteps = <<>>
    /\ breaker = [n \in ServiceNames |-> ClosedBreaker]
    /\ healthy = [n \in ServiceNames |-> TRUE]
    /\ compIdx = 0
    /\ compErrors = <<>>
    /\ compCall = [active |-> FALSE, stale |-> FALSE]
    /\ result = NewResult
    /\ log = <<>>
    /\ fwdOk = {}

BreakerSpec == BreakerInit /\ [][Next]_vars

(***************************************************************************)

(* Validator.ValidateDAG, on workflows whose steps carry one input         *)
(* template each.                                                          *)
(***************************************************************************)
\* an input value that is a template with one expression "{{ .ref.field }}";
\* spaced: the braces are set off by spaces, as in "{{ .ref.field }}", and
\* not as in "{{.ref.field}}"
NoTemplate == [set |-> FALSE, spaced |-> FALSE, ref |-> ""]
Template(spaced, ref) == [set |-> TRUE, spaced |-> spaced, ref |-> ref]

\* a leaf step as the validator reads it
ValidatedStep(id, out, tmpl) == [ID |-> id, Output |-> out, Input |-> tmpl, Parallel |-> <<>>]

ValidatedLeaves ==
    { ValidatedStep(id, out, tmpl) :
        id \in {"", "a", "b"},
        out \in {"", "a", "oa", "ob"},
        tmpl \in {NoTemplate, Template(FALSE, "ob")}
                 \cup { Template(TRUE, r) : r \in {"input", "a", "oa", "ob"} } }

\* a parallel group as the validator reads it
ValidatedGroup(children) ==
    [ID |-> "", Output |-> "", Input |-> NoTemplate, Parallel |-> children]

\* the top-level steps made of leaves, cut into groups after the positions
\* in cuts
RECURSIVE ValidatedSteps(_, _, _)
ValidatedSteps(leaves, cuts, from) ==
    IF from > Len(leaves) THEN <<>>
    ELSE LET end == CHOOSE e \in from..Len(leaves) :
                        /\ (e = Len(leaves) \/ e \in cuts)
                        /\ \A x \in from..(e - 1) : x \notin cuts
             st  == IF end = from THEN leaves[from]
                    ELSE ValidatedGroup(SubSeq(leaves, from, end))
         IN <<st>> \o ValidatedSteps(leaves, cuts, end + 1)

\* the workflows handed to the validator: up to max leaves, alone or in
\* parallel groups
ValidatedWorkflows(max) ==
    UNION { UNION { { [Services |-> Services, Steps |-> ValidatedSteps(ls, cuts, 1)] :
                        cuts \in SUBSET (1..(n - 1)) } :
                    ls \in [1..n -> ValidatedLeaves] } :
            n \in 1..max }

\* extractStepReferences: the first path segment of every expression found
\* by the scan for "{{ " and " }"
extractStepReferences(tmpl) ==
    IF tmpl.set /\ tmpl.spaced /\ tmpl.ref # "" THEN <<tmpl.ref>> ELSE <<>>

\* the dependencies buildStepMap records for a leaf: only for a step with
\* an output, and never the reference to input
StepDependencies(step) ==
    IF step.Output # ""
    THEN { extractStepReferences(step.Input)[i] :
             i \in 1..Len(extractStepReferences(step.Input)) } \ {"input"}
    ELSE {}

\* buildStepMap over the leaves in order: the first error, or nil
RECURSIVE buildStepMap(_, _)
buildStepMap(leaves, seen) ==
    IF Len(leaves) = 0 THEN NoError
    ELSE IF Head(leaves).ID = "" THEN "missing_id"
    ELSE IF Head(leaves).ID \in seen THEN "duplicate_id"
    ELSE buildStepMap(Tail(leaves), seen \cup {Head(leaves).ID})

\* the nodes reached from nodes in k steps or fewer along deps
RECURSIVE ReachableFrom(_, _, _)
ReachableFrom(nodes, deps, k) ==
    IF k = 0 THEN nodes
    ELSE ReachableFrom(
             nodes \cup UNION { IF n \in DOMAIN deps THEN deps[n] ELSE {} : n \in nodes },
             deps, k - 1)

\* detectCycles: some step lies on a cycle of the dependency map
detectCycles(deps) ==
    \E n \in DOMAIN deps :
        n \in ReachableFrom(deps[n], deps, Cardinality(DOMAIN deps))

\* ValidateDAG: the error of buildStepMap, else a cycle, else nil
ValidateDAG(w) ==
    LET leaves == LeafSeq(w.Steps)
        built == buildStepMap(leaves, {})
        ids == { leaves[i].ID : i \in 1..Len(leaves) }
        deps == [id \in ids |->
                    UNION { StepDependencies(leaves[i]) :
                              i \in { k \in 1..Len(leaves) : leaves[k].ID = id } }]
    IN IF built # NoError THEN built
       ELSE IF detectCycles(deps) THEN "cycle"
       ELSE NoError

\* the engine stands idle while the validator runs
ValidatorInit ==
    /\ SideIdle
    /\ validated \in ValidatedWorkflows(MaxValidated)
    /\ validation = "unchecked"
    /\ wf = NoWorkflow
    /\ ctx = "live"
    /\ gctx = NoError
    /\ dpc = "done"
    /\ stepIdx = 1
    /\ task = [j \in 1..MaxLeaves |-> NoTask]
    /\ workerPool = 0
    /\ StepOutputs = [n \in AllOutputNames |-> "unset"]
    /\ ExecutedSteps = <<>>
    /\ breaker = [n \in ServiceNames |-> ClosedBreaker]
    /\ healthy = [n \in ServiceNames |-> TRUE]
    /\ compIdx = 0
    /\ compErrors = <<>>
    /\ compCall = [active |-> FALSE, stale |-> FALSE]
    /\ result = NewResult
    /\ log = <<>>
    /\ fwdOk = {}

\* the call of ValidateDAG
ValidateDAGCall ==
    /\ validation = "unchecked"
    /\ validation' = ValidateDAG(validated)
    /\ UNCHANGED <<sideVars, validated, wf, ctx, gctx, dpc, stepIdx, task, workerPool, StepOutputs,
                   ExecutedSteps, breaker, healthy, compIdx, compErrors, compCall,
                   result, log, fwdOk>>

ValidatorNext == ValidateDAGCall

ValidatorSpec == ValidatorInit /\ [][ValidatorNext]_vars

(***************************************************************************)
(* The parts of the engine looked at on their own start from an engine     *)
(* that stands idle.                                                       *)
(***************************************************************************)
EngineIdle ==
    /\ validated = NoWorkflow
    /\ validation = "unchecked"
    /\ wf = NoWorkflow
    /\ ctx = "live"
    /\ gctx = NoError
    /\ dpc = "done"
    /\ stepIdx = 1
    /\ task = [j \in 1..MaxLeaves |-> NoTask]
    /\ workerPool = 0
    /\ StepOutputs = [n \in AllOutputNames |-> "unset"]
    /\ ExecutedSteps = <<>>
    /\ breaker = [n \in ServiceNames |-> ClosedBreaker]
    /\ healthy = [n \in ServiceNames |-> TRUE]
    /\ compIdx = 0
    /\ compErrors = <<>>
    /\ compCall = [active |-> FALSE, stale |-> FALSE]
    /\ result = NewResult
    /\ log = <<>>
    /\ fwdOk = {}

(***************************************************************************)
(* The worker pool of one Executor, shared by the leaves of all the        *)
(* parallel groups and runs that use it: executeSingleStep from the        *)
(* channel send to the deferred receive.                                   *)
(***************************************************************************)
\* the leaves that go through executeSingleStep, more than the pool holds
PoolLeaves == 1..(WorkerPoolSize + MaxWaiting)

\* a send that never blocks
PoolHasRoomAlways(n) == TRUE

\* the send on the buffered channel goes through while it holds fewer than
\* its capacity
PoolHasRoom(n) == n < WorkerPoolSize

PoolInit ==
    /\ EngineIdle
    /\ document = <<>>
    /\ loaded = "unloaded"
    /\ gor = <<>>
    /\ mu = <<>>
    /\ worker = [p \in PoolLeaves |-> "idle"]
    /\ resolving = NoCall
    /\ resolved = NoAnswer
    /\ UnitIdle

\* e.workerPool <- struct{}{}
PoolAcquire(p) ==
    /\ worker[p] = "idle"
    /\ PoolHasRoom(workerPool)
    /\ workerPool' = workerPool + 1
    /\ worker' = [worker EXCEPT ![p] = "held"]
    /\ UNCHANGED <<document, loaded, gor, mu, resolving, resolved, unitVars, engineVarsButPool>>

\* an attempt of the retry loop calls InvokeMethod
PoolInvoke(p) ==
    /\ worker[p] = "held"
    /\ worker' = [worker EXCEPT ![p] = "incall"]
    /\ UNCHANGED <<document, loaded, gor, mu, resolving, resolved, unitVars, engineVars>>

\* InvokeMethod returns to the retry loop
PoolReturn(p) ==
    /\ worker[p] = "incall"
    /\ worker' = [worker EXCEPT ![p] = "held"]
    /\ UNCHANGED <<document, loaded, gor, mu, resolving, resolved, unitVars, engineVars>>

\* executeSingleStep returns, with a result or an error: the deferred
\* receive gives the slot back
PoolRelease(p) ==
    /\ worker[p] = "held"
    /\ workerPool' = workerPool - 1
    /\ worker' = [worker EXCEPT ![p] = "idle"]
    /\ UNCHANGED <<document, loaded, gor, mu, resolving, resolved, unitVars, engineVarsButPool>>

PoolNext ==
    \/ \E p \in PoolLeaves : PoolAcquire(p)
    \/ \E p \in PoolLeaves : PoolInvoke(p)
    \/ \E p \in PoolLeaves : PoolReturn(p)
    \/ \E p \in PoolLeaves : PoolRelease(p)

PoolSpec == PoolInit /\ [][PoolNext]_vars

(***************************************************************************)

(* The workflow loader: Orchestrator.LoadWorkflow, Parser.Parse and        *)
(* Parser.validateWorkflow, on documents that yaml.Unmarshal has decoded.  *)
(***************************************************************************)
\* a compensation that names no method
EmptyCompensate == [set |-> TRUE, Method |-> ""]

\* the leaves of the documents: sound leaves with any id and output, and
\* leaves with one defect each
DocumentLeaves ==
    { LeafStep(id, "grpcA", "", out, UndoCompensate) :
        id \in {"", "a", "b"}, out \in {"", "oa", "ob"} }
    \cup { LeafStep("a", "", "", "oa", NilCompensate),
           LeafStep("a", "zz", "", "oa", NilCompensate),
           [LeafStep("a", "httpB", "", "oa", NilCompensate) EXCEPT !.Method = ""],
           LeafStep("a", "httpB", "", "oa", EmptyCompensate) }

\* the services of the documents: sound ones, or one of them with a defect
DocumentServices ==
    LET sound == [grpcA |-> [Type |-> "grpc", Endpoint |-> "localhost:50051"],
                  httpB |-> [Type |-> "http", Endpoint |-> "http://localhost:8080"]]
    IN { sound,
         [sound EXCEPT !.grpcA.Type = ""],
         [sound EXCEPT !.httpB.Endpoint = ""],
         [sound EXCEPT !.httpB.Type = "soap"] }

\* the documents of up to max leaves, alone or in parallel groups
Documents(max) ==
    UNION { UNION { { [Name |-> name, Version |-> version, Services |-> services,
                       Steps |-> BuildSteps(ls, cuts, 1)] :
                        name \in {"", "order"}, version \in {"", "1.0"},
                        services \in DocumentServices,
                        cuts \in SUBSET (1..(n - 1)) } :
                    ls \in [1..n -> DocumentLeaves] } :
            n \in 0..max }

\* Parser.validateService
validateService(s) ==
    IF s.Type = "" THEN "service_type_required"
    ELSE IF s.Endpoint = "" THEN "service_endpoint_required"
    ELSE IF s.Type \notin {"grpc", "http"} THEN "service_invalid_type"
    ELSE NoError

\* Parser.validateStep on a leaf.  The id it gives a step without one is
\* written to a copy of the step and does not reach the workflow.
validateLeaf(s, services) ==
    IF s.Service = "" THEN "service_required"
    ELSE IF s.Service \notin DOMAIN services THEN "unknown_service"
    ELSE IF s.Method = "" THEN "method_required"
    ELSE IF s.Compensate.set /\ s.Compensate.Method = "" THEN "compensation_method_required"
    ELSE NoError

\* Parser.validateStep over a list of steps, in order: the first error.  A
\* parallel step is validated through its children only.
RECURSIVE validateSteps(_, _)
validateSteps(steps, services) ==
    IF Len(steps) = 0 THEN NoError
    ELSE LET s == Head(steps)
             err == IF Len(s.Parallel) > 0 THEN validateSteps(s.Parallel, services)
                    ELSE validateLeaf(s, services)
         IN IF err # NoError THEN err ELSE validateSteps(Tail(steps), services)

\* Parser.validateWorkflow: the errors it can return (the services are
\* visited in the order of a map), nil among them when it accepts
validateWorkflow(w) ==
    IF w.Name = "" THEN {"name_required"}
    ELSE IF w.Version = "" THEN {"version_required"}
    ELSE IF Len(w.Steps) = 0 THEN {"no_steps"}
    ELSE LET bad == { validateService(w.Services[n]) : n \in DOMAIN w.Services } \ {NoError}
         IN IF bad # {} THEN bad ELSE {validateSteps(w.Steps, w.Services)}

\* the id validateStep gives a step declared without one: "step_<index>"
AutoId(index) == <<"step_0", "step_1", "step_2", "step_3">>[index + 1]

\* the step validateStep works on when it has filled the id: the loops of
\* validateWorkflow and of validateStep hand it the address of their loop
\* variable, a copy of the element (index counts from 0)
FilledCopy(s, index) == IF s.ID = "" THEN [s EXCEPT !.ID = AutoId(index)] ELSE s

\* the steps of the Workflow that Parse returns: the elements of w.Steps
\* and of their Parallel lists, which the loops never assign to
ParsedSteps(steps) == steps

\* the Workflow that Parse returns
Parsed(w) == [w EXCEPT !.Steps = ParsedSteps(w.Steps)]

\* o.workflows[wf.Name] = wf
StoreWorkflow(loads, w) ==
    [n \in DOMAIN loads \cup {w.Name} |-> IF n = w.Name THEN w ELSE loads[n]]

\* the orders in which a range over the map of services visits its keys
ServiceOrders(names) ==
    { order \in [1..Cardinality(names) -> names] :
        \A i, j \in DOMAIN order : i # j => order[i] # order[j] }

\* the loop of RegisterService calls over the services in the given order:
\* the position of the first name that is already registered, past the
\* end when there is none
FirstRegistered(order, names) ==
    IF \E i \in DOMAIN order : order[i] \in names
    THEN CHOOSE i \in DOMAIN order :
             order[i] \in names /\ \A j \in 1..(i - 1) : order[j] \notin names
    ELSE Len(order) + 1

\* a workflow loaded earlier, which registered the service grpcA or both
EarlierWorkflow(names) ==
    [Name |-> "billing", Version |-> "1.0",
     Services |-> [n \in names |-> [Type |-> "grpc", Endpoint |-> "localhost:50051"]],
     Steps |-> <<LeafStep("a", "grpcA", "", "oa", NilCompensate)>>]

LoaderInit ==
    /\ EngineIdle
    /\ document \in Documents(MaxLoaded)
    /\ loaded = "unloaded"
    /\ gor = <<>>
    /\ mu = <<>>
    /\ worker = <<>>
    /\ resolving = NoCall
    /\ resolved = NoAnswer
    /\ call = <<>>
    /\ returned = <<>>
    /\ connPool = <<>>
    /\ \E names \in {{}, {"grpcA"}, {"grpcA", "httpB"}} :
          /\ registered = names
          /\ workflows = IF names = {} THEN <<>>
                         ELSE [n \in {"billing"} |-> EarlierWorkflow(names)]

\* Orchestrator.LoadWorkflow: the document is parsed and validated; when
\* the parser returns no error the workflow is stored, and then its
\* services are registered one by one until a registration fails
LoadWorkflow ==
    /\ loaded = "unloaded"
    /\ \E err \in validateWorkflow(document) :
          IF err # NoError
          THEN /\ loaded' = err
               /\ UNCHANGED <<workflows, registered>>
          ELSE /\ workflows' = StoreWorkflow(workflows, Parsed(document))
               /\ \E order \in ServiceOrders(DOMAIN document.Services) :
                     LET k == FirstRegistered(order, registered)
                     IN /\ registered' = registered \cup { order[i] : i \in 1..(k - 1) }
                        /\ loaded' = IF k <= Len(order) THEN "already_registered" ELSE NoError
    /\ UNCHANGED <<document, gor, mu, worker, resolving, resolved, call, returned,
                   connPool, engineVars>>

LoaderNext == LoadWorkflow

LoaderSpec == LoaderInit /\ [][LoaderNext]_vars

(***************************************************************************)

(* The template resolver in the four places that use it: the input of a    *)
(* step (resolveStepInput), the guard of a step (evaluateCondition), the   *)
(* input of a compensation (CompensateStep) and the output templates of    *)
(* the workflow (ExecuteWorkflow).                                         *)
(***************************************************************************)
\* a template: a text without an action, or the one action "{{ .key }}" or
\* "{{ .key.field }}"
Literal(text) == [kind |-> "literal", text |-> text, key |-> "", field |-> ""]
Expression(key, field) == [kind |-> "expr", text |-> "", key |-> key, field |-> field]

ResolverTemplates ==
    { Literal(t) : t \in {"true", "false", "o1"} }
    \cup { Expression(k, f) : k \in {"input", "o1", "zz"}, f \in {"", "id", "zz"} }

\* the values of a scope: nil, a boolean, a text, or a map with the one
\* field id; "unset" stands for a key that StepOutputs does not hold
ResolverValues == {"unset", "nil", "bool_true", "bool_false", "text", "map"}

\* the contents of StepOutputs at the time of the call, over two names
ResolverOutputs == [{"o1", "true"} -> ResolverValues]

\* the places the resolver is called from
ResolverPlaces == {"input", "when", "compensation", "output"}

ResolverCalls ==
    { [place |-> pl, tmpl |-> t, outs |-> o] :
        pl \in ResolverPlaces, t \in ResolverTemplates, o \in ResolverOutputs }

\* domain.IsTemplate: the text starts with "{{" and ends with "}}"
IsTemplate(tmpl) == tmpl.kind = "expr"

\* the scope that holds input only
InputScope == [n \in {"input"} |-> "map"]

\* the entries of StepOutputs
RecordedOutputs(outs) == [k \in { n \in DOMAIN outs : outs[n] # "unset" } |-> outs[k]]

\* the scope that holds input and a copy of StepOutputs
FullScope(outs) ==
    [n \in {"input"} \cup { k \in DOMAIN outs : outs[k] # "unset" } |->
        IF n = "input" THEN "map" ELSE outs[n]]

Rendered(text) == [err |-> FALSE, text |-> text]
RenderError == [err |-> TRUE, text |-> ""]

\* what text/template prints for a value
PrintValue(v) ==
    CASE v = "nil" -> "<no value>"
      [] v = "bool_true" -> "true"
      [] v = "bool_false" -> "false"
      [] v = "text" -> "hello"
      [] OTHER -> "map[id:7]"

\* a map lookup that finds no entry: an error under missingkey=error, and
\* otherwise no value, which prints as "<no value>"
MissingKey(missingKeyError) ==
    IF missingKeyError THEN RenderError ELSE Rendered("<no value>")

\* template Parse and Execute on a scope.  missingKeyError: the template
\* was made with Option("missingkey=error").
Render(tmpl, scope, missingKeyError) ==
    IF tmpl.kind = "literal" THEN Rendered(tmpl.text)
    ELSE IF tmpl.key \notin DOMAIN scope THEN MissingKey(missingKeyError)
    ELSE IF tmpl.field = "" THEN Rendered(PrintValue(scope[tmpl.key]))
    ELSE IF scope[tmpl.key] = "map"
         THEN (IF tmpl.field = "id" THEN Rendered("7") ELSE MissingKey(missingKeyError))
         ELSE RenderError

\* Executor.resolveTemplate: template.New("executor"), without option
resolveTemplate(tmpl, scope) == Render(tmpl, scope, FALSE)

\* Parser.ResolveTemplate: the template engine of NewParser, made with
\* Option("missingkey=error")
ResolveTemplate(tmpl, scope) == Render(tmpl, scope, TRUE)

\* the answer of a call that rendered against scope
Answer(r, scope) ==
    [done |-> TRUE, err |-> r.err, text |-> r.text, cond |-> FALSE, scope |-> DOMAIN scope]

ResolverInit ==
    /\ EngineIdle
    /\ document = <<>>
    /\ loaded = "unloaded"
    /\ gor = <<>>
    /\ mu = <<>>
    /\ worker = <<>>
    /\ resolving \in ResolverCalls
    /\ resolved = NoAnswer
    /\ UnitIdle

\* Executor.resolveStepInput on one input value: a value that is a template
\* is rendered against input and the outputs, any other is passed on
ResolveStepInputCall ==
    /\ resolving.place = "input" /\ ~resolved.done
    /\ LET scope == FullScope(resolving.outs)
       IN resolved' = IF IsTemplate(resolving.tmpl)
                      THEN Answer(resolveTemplate(resolving.tmpl, scope), scope)
                      ELSE Answer(Rendered(resolving.tmpl.text), scope)
    /\ UNCHANGED <<document, loaded, gor, mu, worker, resolving, unitVars, engineVars>>

\* Executor.evaluateCondition: the guard is rendered against input alone and
\* the text is looked up in StepOutputs
EvaluateConditionCall ==
    /\ resolving.place = "when" /\ ~resolved.done
    /\ LET r == resolveTemplate(resolving.tmpl, InputScope)
           outs == RecordedOutputs(resolving.outs)
       IN resolved' = [Answer(r, InputScope) EXCEPT
                         !.cond = ~r.err /\ evaluateCondition(r.text, outs)]
    /\ UNCHANGED <<document, loaded, gor, mu, worker, resolving, unitVars, engineVars>>

\* Executor.CompensateStep on one value of the compensation's input
CompensateStepInputCall ==
    /\ resolving.place = "compensation" /\ ~resolved.done
    /\ LET scope == FullScope(resolving.outs)
       IN resolved' = IF IsTemplate(resolving.tmpl)
                      THEN Answer(resolveTemplate(resolving.tmpl, scope), scope)
                      ELSE Answer(Rendered(resolving.tmpl.text), scope)
    /\ UNCHANGED <<document, loaded, gor, mu, worker, resolving, unitVars, engineVars>>

\* ExecuteWorkflow on one output template of the workflow: it is rendered
\* against input alone
OutputTemplateCall ==
    /\ resolving.place = "output" /\ ~resolved.done
    /\ resolved' = Answer(ResolveTemplate(resolving.tmpl, InputScope), InputScope)
    /\ UNCHANGED <<document, loaded, gor, mu, worker, resolving, unitVars, engineVars>>

ResolverNext ==
    \/ ResolveStepInputCall
    \/ EvaluateConditionCall
    \/ CompensateStepInputCall
    \/ OutputTemplateCall

ResolverSpec == ResolverInit /\ [][ResolverNext]_vars

(***************************************************************************)
(* The goroutines of a parallel group and of a group nested in it, from    *)
(* g.Go to the return of each: the reads and the writes they make of the   *)
(* StepOutputs and the ExecutedSteps of the one ExecutionContext.  Each    *)
(* call of executeParallelSteps declares its own mutex.  An access to the  *)
(* map or to the slice runs from its Begin step to its End step.           *)
(***************************************************************************)
\* the two calls of executeParallelSteps: for the group, and for the group
\* that is its last member
GroupCalls == {"outer", "inner"}

\* the goroutines of the outer call that run a leaf, the one that runs the
\* nested group, and the goroutines of the inner call
OuterLeaves == { <<"outer", i>> : i \in 1..(MaxGroup - 1) }
GroupMember == <<"outer", MaxGroup>>
InnerLeaves == { <<"inner", i>> : i \in 1..MaxGroup }
GroupLeaves == OuterLeaves \cup InnerLeaves
Goroutines == GroupLeaves \cup {GroupMember}

\* the step of goroutine g: its ID and its Output
StepOf(g) == IF g[1] = "outer" THEN g[2] ELSE MaxGroup + g[2]
IdOf(g) == StepIds[((StepOf(g) - 1) % Len(StepIds)) + 1]
OutputOf(g) == OutputNames[((StepOf(g) - 1) % Len(OutputNames)) + 1]

\* a guard that names the output of a step of the other group
GuardOf(g) == IF g[1] = "outer" THEN OutputOf(<<"inner", 1>>) ELSE OutputOf(<<"outer", 1>>)

\* the position of a goroutine: When and Compensate are of its step, output
\* is result.Output, execs the slice header append() has read
Goroutine(pc, when, compensate) ==
    [pc |-> pc, When |-> when, Compensate |-> compensate, output |-> "nil", execs |-> <<>>]

\* the engine variables the goroutines leave alone
groupFrame ==
    <<document, loaded, worker, resolving, resolved, unitVars, validated, validation, wf,
      ctx, gctx, dpc, stepIdx, task, breaker, healthy, compIdx, compErrors,
      compCall, result, log, fwdOk>>

\* the goroutines that read StepOutputs, write it, or append to ExecutedSteps
ReadingOutputs == { g \in DOMAIN gor : gor[g].pc \in {"guardRead", "inputRead"} }
WritingOutputs == { g \in DOMAIN gor : gor[g].pc = "writing" }
AppendingExecuted == { g \in DOMAIN gor : gor[g].pc = "appending" }

\* what a read of StepOutputs[name] by g can give: the value of the map, or
\* the value a write under way is storing
ReadOutputs(g, name) ==
    {StepOutputs[name]} \cup
    { gor[h].output : h \in { w \in WritingOutputs \ {g} : OutputOf(w) = name } }

\* the map as a read of the entry name has seen it
OutputsSeen(name, value) == Put(StepOutputs, name, value)

GroupInit ==
    /\ EngineIdle
    /\ document = <<>>
    /\ loaded = "unloaded"
    /\ worker = <<>>
    /\ resolving = NoCall
    /\ resolved = NoAnswer
    /\ UnitIdle
    /\ mu = [c \in {"outer"} |-> <<>>]
    /\ \E whens \in [GroupLeaves -> BOOLEAN] :
          gor = [g \in Goroutines |->
                    IF g = GroupMember THEN Goroutine("start", "", FALSE)
                    ELSE Goroutine(IF g \in InnerLeaves THEN "unstarted" ELSE "start",
                                   IF whens[g] THEN GuardOf(g) ELSE "", TRUE)]

\* ExecuteStep of a leaf: to evaluateCondition when it has a guard, else to
\* executeSingleStep
GroupExecuteStep(g) ==
    /\ g \in GroupLeaves
    /\ gor[g].pc = "start"
    /\ gor' = [gor EXCEPT ![g].pc = IF gor[g].When # "" THEN "guardRead" ELSE "pool"]
    /\ UNCHANGED <<mu, StepOutputs, ExecutedSteps, workerPool, groupFrame>>

\* evaluateCondition returns: the loop over execCtx.StepOutputs has run
\* with no mutex held; a false guard returns a result with a nil output
GroupEvaluateCondition(g) ==
    /\ gor[g].pc = "guardRead"
    /\ \E value \in ReadOutputs(g, gor[g].When) :
          LET condition == evaluateCondition(gor[g].When, OutputsSeen(gor[g].When, value))
          IN gor' = [gor EXCEPT ![g].pc = IF condition THEN "pool" ELSE "returned",
                                ![g].output = "nil"]
    /\ UNCHANGED <<mu, StepOutputs, ExecutedSteps, workerPool, groupFrame>>

\* executeSingleStep takes a slot of the pool and resolveStepInput starts
\* to copy execCtx.StepOutputs into its scope, with no mutex held
GroupBeginResolveInput(g) ==
    /\ gor[g].pc = "pool"
    /\ PoolHasRoom(workerPool)
    /\ workerPool' = workerPool + 1
    /\ gor' = [gor EXCEPT ![g].pc = "inputRead"]
    /\ UNCHANGED <<mu, StepOutputs, ExecutedSteps, groupFrame>>

\* the copy is done and the service is invoked
GroupEndResolveInput(g) ==
    /\ gor[g].pc = "inputRead"
    /\ gor' = [gor EXCEPT ![g].pc = "incall"]
    /\ UNCHANGED <<mu, StepOutputs, ExecutedSteps, workerPool, groupFrame>>

\* executeSingleStep returns the answer of the service, or its error: the
\* goroutine returns the error without a commit
GroupReturn(g) ==
    /\ gor[g].pc = "incall"
    /\ workerPool' = workerPool - 1
    /\ \E ok \in BOOLEAN :
          gor' = [gor EXCEPT ![g].pc = IF ok THEN "returned" ELSE "failed",
                             ![g].output = IF ok THEN "bool_true" ELSE "nil"]
    /\ UNCHANGED <<mu, StepOutputs, ExecutedSteps, groupFrame>>

\* ExecuteStep of the member that is a group: executeParallelSteps declares
\* its mutex and starts its goroutines
GroupSpawn ==
    /\ gor[GroupMember].pc = "start"
    /\ mu' = [c \in GroupCalls |-> IF c = "inner" THEN <<>> ELSE mu[c]]
    /\ gor' = [g \in Goroutines |->
                  IF g = GroupMember THEN [gor[g] EXCEPT !.pc = "waiting"]
                  ELSE IF g \in InnerLeaves THEN [gor[g] EXCEPT !.pc = "start"]
                  ELSE gor[g]]
    /\ UNCHANGED <<StepOutputs, ExecutedSteps, workerPool, groupFrame>>

\* g.Wait() of the inner call returns when all its goroutines have: with
\* the first error, or the combined output
GroupWait ==
    /\ gor[GroupMember].pc = "waiting"
    /\ \A g \in InnerLeaves : gor[g].pc \in {"done", "failed"}
    /\ LET ok == \A g \in InnerLeaves : gor[g].pc = "done"
       IN gor' = [gor EXCEPT ![GroupMember].pc = IF ok THEN "returned" ELSE "failed",
                             ![GroupMember].output = IF ok THEN "val" ELSE "nil"]
    /\ UNCHANGED <<mu, StepOutputs, ExecutedSteps, workerPool, groupFrame>>

\* mu.Lock() on the mutex of the call that started the goroutine
GroupLock(g) ==
    /\ gor[g].pc = "returned"
    /\ mu[g[1]] = <<>>
    /\ mu' = [mu EXCEPT ![g[1]] = g]
    /\ gor' = [gor EXCEPT ![g].pc = "locked"]
    /\ UNCHANGED <<StepOutputs, ExecutedSteps, workerPool, groupFrame>>

\* execCtx.StepOutputs[step.Output] = result.Output, from its start ...
GroupBeginWrite(g) ==
    /\ gor[g].pc = "locked"
    /\ gor' = [gor EXCEPT ![g].pc = "writing"]
    /\ UNCHANGED <<mu, StepOutputs, ExecutedSteps, workerPool, groupFrame>>

\* ... to its end
GroupEndWrite(g) ==
    /\ gor[g].pc = "writing"
    /\ StepOutputs' = Put(StepOutputs, OutputOf(g), gor[g].output)
    /\ gor' = [gor EXCEPT ![g].pc = "written"]
    /\ UNCHANGED <<mu, ExecutedSteps, workerPool, groupFrame>>

\* append(execCtx.ExecutedSteps, ...) of a step with a compensation reads
\* the slice ...
GroupBeginAppend(g) ==
    /\ gor[g].pc = "written"
    /\ gor[g].Compensate
    /\ gor' = [gor EXCEPT ![g].pc = "appending", ![g].execs = ExecutedSteps]
    /\ UNCHANGED <<mu, StepOutputs, ExecutedSteps, workerPool, groupFrame>>

\* ... and execCtx.ExecutedSteps is assigned the slice it read with the
\* new entry
GroupEndAppend(g) ==
    /\ gor[g].pc = "appending"
    /\ ExecutedSteps' = Append(gor[g].execs, [StepID |-> IdOf(g), Output |-> gor[g].output])
    /\ gor' = [gor EXCEPT ![g].pc = "appended", ![g].execs = <<>>]
    /\ UNCHANGED <<mu, StepOutputs, workerPool, groupFrame>>

\* mu.Unlock() and the return of the goroutine
GroupUnlock(g) ==
    /\ \/ gor[g].pc = "appended"
       \/ gor[g].pc = "written" /\ ~gor[g].Compensate
    /\ mu' = [mu EXCEPT ![g[1]] = <<>>]
    /\ gor' = [gor EXCEPT ![g].pc = "done"]
    /\ UNCHANGED <<StepOutputs, ExecutedSteps, workerPool, groupFrame>>

\* the runtime finds the map being written by one goroutine while another
\* reads or writes it, and ends the process ("concurrent map writes",
\* "concurrent map read and map write")
GroupFatal ==
    /\ WritingOutputs # {}
    /\ Cardinality(WritingOutputs \cup ReadingOutputs) > 1
    /\ gor' = [g \in Goroutines |-> [gor[g] EXCEPT !.pc = "fatal"]]
    /\ UNCHANGED <<mu, StepOutputs, ExecutedSteps, workerPool, groupFrame>>

GroupNext ==
    \/ \E g \in Goroutines : GroupExecuteStep(g)
    \/ \E g \in Goroutines : GroupEvaluateCondition(g)
    \/ \E g \in Goroutines : GroupBeginResolveInput(g)
    \/ \E g \in Goroutines : GroupEndResolveInput(g)
    \/ \E g \in Goroutines : GroupReturn(g)
    \/ GroupSpawn
    \/ GroupWait
    \/ \E g \in Goroutines : GroupLock(g)
    \/ \E g \in Goroutines : GroupBeginWrite(g)
    \/ \E g \in Goroutines : GroupEndWrite(g)
    \/ \E g \in Goroutines : GroupBeginAppend(g)
    \/ \E g \in Goroutines : GroupEndAppend(g)
    \/ \E g \in Goroutines : GroupUnlock(g)
    \/ GroupFatal

GroupSpec == GroupInit /\ [][GroupNext]_vars

(***************************************************************************)
(* The backoff of the retry loop.  A time.Duration is a signed 64-bit      *)
(* count of nanoseconds, held here as its eight bytes, lowest first.       *)
(***************************************************************************)
\* the attempt numbers of the retry loop that are looked at
MaxAttempts == 70

WordBytes == 8

\* the word of a number below 2^31
Word(n) == [i \in 1..WordBytes |-> IF i <= 4 THEN (n \div (256 ^ (i - 1))) % 256 ELSE 0]

\* 1 << uint(s) on a 64-bit word: zero when s is 64 or more
ShiftOne(s) ==
    [i \in 1..WordBytes |-> IF s < 8 * WordBytes /\ s \div 8 = i - 1 THEN 2 ^ (s % 8) ELSE 0]

\* the sum of the byte products that fall on byte k of a product
Column(a, b, k) ==
    LET RECURSIVE Sum(_)
        Sum(i) == IF i = 0 THEN 0 ELSE a[i] * b[k + 1 - i] + Sum(i - 1)
    IN Sum(k)

\* the carry into byte k of a product
RECURSIVE Carry(_, _, _)
Carry(a, b, k) ==
    IF k = 1 THEN 0 ELSE (Column(a, b, k - 1) + Carry(a, b, k - 1)) \div 256

\* a * b on 64-bit words: the low 64 bits of the product
Mul64(a, b) == [k \in 1..WordBytes |-> (Column(a, b, k) + Carry(a, b, k)) % 256]

\* the sign of a word read as a signed number
Negative(a) == a[WordBytes] >= 128

\* a < b on words read as unsigned numbers
Below(a, b) ==
    \E k \in 1..WordBytes : a[k] < b[k] /\ \A j \in (k + 1)..WordBytes : a[j] = b[j]

\* a < b on words read as signed numbers
Less64(a, b) == IF Negative(a) # Negative(b) THEN Negative(a) ELSE Below(a, b)

\* min(a, b)
Min64(a, b) == IF Less64(b, a) THEN b ELSE a

\* time.Second, and n seconds for a small n
Second == Word(1000000000)
Seconds(n) == Mul64(Word(n), Second)

\* Executor.calculateBackoff(attempt, retry), retry being non-nil
calculateBackoff(attempt, retry) ==
    IF retry.Backoff # "exponential" THEN Second
    ELSE LET baseDelay == Second
             maxDelay == Seconds(30)
             delay == Mul64(baseDelay, ShiftOne(attempt))
         IN Min64(delay, maxDelay)

\* the retry configurations, and attempt number k of a leaf
BackoffCalls ==
    [k : 2..MaxAttempts, Backoff : {"", "constant", "exponential", "linear"}]

BackoffInit ==
    /\ EngineIdle
    /\ document = <<>>
    /\ loaded = "unloaded"
    /\ gor = <<>>
    /\ mu = <<>>
    /\ worker = <<>>
    /\ resolving = NoCall
    /\ resolved = NoAnswer
    /\ call \in BackoffCalls
    /\ returned = <<>>
    /\ connPool = <<>>
    /\ workflows = <<>>
    /\ registered = {}

\* the retry loop before attempt k: time.Sleep(e.calculateBackoff(attempt-1, service.Retry))
CalculateBackoffCall ==
    /\ returned = <<>>
    /\ returned' = calculateBackoff(call.k - 1, [Backoff |-> call.Backoff])
    /\ UNCHANGED <<document, loaded, gor, mu, worker, resolving, resolved, call,
                   connPool, workflows, registered, engineVars>>

BackoffNext == CalculateBackoffCall

BackoffSpec == BackoffInit /\ [][BackoffNext]_vars

(***************************************************************************)
(* The error classifier of the retry loop, on the errors InvokeMethod can  *)
(* hand to executeSingleStep.                                              *)
(***************************************************************************)
\* the largest number of attempts of the services looked at
MaxClassified == 3

\* an error by where it comes from: a gRPC status of the call, the status
\* of an HTTP response (InvokeHTTP returns an error from 400 on), a failure
\* of the HTTP client to connect or its timeout, a rejection by the breaker,
\* a response of the service with Success = false
LeafErrors ==
    [source : {"grpc"}, code : {"unavailable", "deadline", "resource_exhausted",
                                "internal", "invalid_argument", "not_found"}]
    \cup [source : {"http"}, code : {400, 404, 408, 429, 500, 503}]
    \cup [source : {"net"}, code : {"connect", "timeout"}]
    \cup [source : {"breaker"}, code : {"open_state", "too_many_requests"}]
    \cup [source : {"service"}, code : {"business_error"}]

\* status.FromError(err): the code of the gRPC status the error carries;
\* the errors made with fmt.Errorf by InvokeHTTP and the errors of the
\* breaker carry none
StatusCode(e) == IF e.source = "grpc" THEN e.code ELSE "none"

ClassifierCalls ==
    { c \in [err : LeafErrors, attempt : 1..MaxClassified, retryAttempts : 1..MaxClassified] :
        c.attempt <= c.retryAttempts }

ClassifierInit ==
    /\ EngineIdle
    /\ document = <<>>
    /\ loaded = "unloaded"
    /\ gor = <<>>
    /\ mu = <<>>
    /\ worker = <<>>
    /\ resolving = NoCall
    /\ resolved = NoAnswer
    /\ call \in ClassifierCalls
    /\ returned = <<>>
    /\ connPool = <<>>
    /\ workflows = <<>>
    /\ registered = {}

\* the end of an attempt that failed with call.err: what isRetryableError
\* says of it, and whether the loop goes on to another attempt
ClassifyCall ==
    /\ returned = <<>>
    /\ LET retryable == isRetryableError(StatusCode(call.err))
       IN returned' = <<retryable, call.attempt < call.retryAttempts /\ retryable>>
    /\ UNCHANGED <<document, loaded, gor, mu, worker, resolving, resolved, call,
                   connPool, workflows, registered, engineVars>>

ClassifierNext == ClassifyCall

ClassifierSpec == ClassifierInit /\ [][ClassifierNext]_vars

(***************************************************************************)
(* The connection pool of a gRPC service: its size and its 32-bit counter. *)
(***************************************************************************)
\* how far from zero and from the ends of the int32 range the counter of
\* the pools looked at lies
MaxCalls == 6

MaxInt32 == 2147483647
MinInt32 == -MaxInt32 - 1

\* x + 1 and x - 1 on an int32
Add32(x) == IF x = MaxInt32 THEN MinInt32 ELSE x + 1
Sub32(x) == IF x = MinInt32 THEN MaxInt32 ELSE x - 1

\* a % n of Go for n > 0: the remainder has the sign of a
GoRem(a, n) ==
    IF a >= 0 THEN a % n
    ELSE IF a = MinInt32 THEN -((-(a + n)) % n)
    ELSE -((-a) % n)

\* the number of calls of GetConnection, modulo n, that leave the counter
\* at c: c calls, or 2^32 + c calls when the counter has wrapped around
CallsModulo(c, n) ==
    IF c >= 0 THEN c % n
    ELSE LET high == (((65536 % n) * (65536 % n)) % n)
         IN (high + n + GoRem(c, n)) % n

\* the pools: of the size the registry gives them and of other sizes, with
\* a counter near zero, near the largest int32 or past it
ConnectionPools ==
    { [size |-> n, current |-> c, calls |-> CallsModulo(c, n), closed |-> FALSE] :
        n \in {1, 2, 3, 5},
        c \in (0..MaxCalls) \cup { MaxInt32 - d : d \in 0..MaxCalls }
              \cup { MinInt32 + d : d \in 0..MaxCalls } }

\* the counter may advance: the counters looked at stop MaxCalls past a
\* starting point
MayCall(c) ==
    \/ c >= 0 /\ c < 2 * MaxCalls
    \/ c >= MaxInt32 - MaxCalls
    \/ c < 0 /\ c < MinInt32 + 2 * MaxCalls

ConnectionInit ==
    /\ EngineIdle
    /\ document = <<>>
    /\ loaded = "unloaded"
    /\ gor = <<>>
    /\ mu = <<>>
    /\ worker = <<>>
    /\ resolving = NoCall
    /\ resolved = NoAnswer
    /\ call = <<>>
    /\ returned = <<>>
    /\ connPool \in ConnectionPools
    /\ workflows = <<>>
    /\ registered = {}

\* ConnectionPool.GetConnection: nil for a closed pool, else the counter
\* is advanced and the connection at int(next-1) % len is returned
\* (returned: the index, and whether a connection was returned)
GetConnection ==
    /\ MayCall(connPool.current)
    /\ IF connPool.closed
       THEN /\ returned' = <<0, FALSE>>
            /\ UNCHANGED connPool
       ELSE LET next == Add32(connPool.current)
                idx == GoRem(Sub32(next), connPool.size)
            IN /\ returned' = <<idx, TRUE>>
               /\ connPool' = [connPool EXCEPT !.current = next,
                                               !.calls = (@ + 1) % connPool.size]
    /\ UNCHANGED <<document, loaded, gor, mu, worker, resolving, resolved, call,
                   workflows, registered, engineVars>>

\* ConnectionPool.Close: p.connections = nil
CloseConnections ==
    /\ ~connPool.closed
    /\ connPool' = [connPool EXCEPT !.closed = TRUE]
    /\ returned' = <<>>
    /\ UNCHANGED <<document, loaded, gor, mu, worker, resolving, resolved, call,
                   workflows, registered, engineVars>>

ConnectionNext ==
    \/ GetConnection
    \/ CloseConnections

ConnectionSpec == ConnectionInit /\ [][ConnectionNext]_vars

(***************************************************************************)
(* A run of ExecuteWorkflow during which CancelWorkflow is called with the *)
(* id of the run.                                                          *)
(***************************************************************************)
\* the runs looked at: of the workflows of up to two leaves
CancelInit ==
    /\ Init
    /\ Len(LeafSeq(wf.Steps)) <= 2

\* Orchestrator.CancelWorkflow while the result of the run is stored in
\* runningWorkflows: the status of that result is set to cancelled and nil
\* is returned; the context of the run is not cancelled
CancelWorkflow ==
    /\ dpc # "done"
    /\ call = <<>>
    /\ result' = [result EXCEPT !.Status = "cancelled"]
    /\ call' = <<"CancelWorkflow">>
    /\ UNCHANGED <<document, loaded, gor, mu, worker, resolving, resolved, returned,
                   connPool, workflows, registered, validated, validation, wf, ctx,
                   gctx, dpc, stepIdx, task, workerPool, StepOutputs, ExecutedSteps,
                   breaker, healthy, compIdx, compErrors, compCall, log, fwdOk>>

CancelNext ==
    \/ Next
    \/ CancelWorkflow

CancelSpec == CancelInit /\ [][CancelNext]_vars

(***************************************************************************)
(* A run of a workflow of one parallel group with more leaves than the     *)
(* worker pool has slots: one leaf of the group and a nested group of the  *)
(* others.  The leaves declare no output and no compensation, so the       *)
(* commits of their goroutines write nothing.  Every call returns.         *)
(***************************************************************************)
\* the leaves: leaf 1 is a child of the outer group, the others are the
\* children of the group nested in it
RunLeaves == 1..(WorkerPoolSize + 1)
RunInner == RunLeaves \ {1}

\* the goroutine of the outer group that runs the nested group
RunMember == 0

\* retryAttempts of a leaf: the first inner leaf calls the service with a
\* retry policy of two attempts, the others a service with none
RunAttempts(i) == IF i = 2 THEN RetryAttempts(Services["httpB"]) ELSE 1

\* the ends of an attempt: no error, or an error (retryable, and final for
\* a leaf that has used up its attempts)
RunOutcomes == {NoError, "unavailable"}

\* a return that gives the slot back only when the step succeeded
SlotsKeptOnError(n, err) == IF err = NoError THEN n - 1 ELSE n

\* the deferred receive from the pool at the return of executeSingleStep
SlotsAfterReturn(n, err) == n - 1

RunInit ==
    /\ SideIdle
    /\ validated = NoWorkflow
    /\ validation = "unchecked"
    /\ wf = NoWorkflow
    /\ ctx = "live"
    /\ gctx = NoError
    /\ dpc = "step"
    /\ stepIdx = 1
    /\ task = [j \in 1..MaxLeaves |-> NoTask]
    /\ workerPool = 0
    /\ StepOutputs = [n \in AllOutputNames |-> "unset"]
    /\ ExecutedSteps = <<>>
    /\ breaker = [n \in ServiceNames |-> ClosedBreaker]
    /\ healthy = [n \in ServiceNames |-> TRUE]
    /\ compIdx = 0
    /\ compErrors = <<>>
    /\ compCall = [active |-> FALSE, stale |-> FALSE]
    /\ result = NewResult
    /\ log = <<>>
    /\ fwdOk = {}

\* the variables that a run of the group leaves alone
runFrame ==
    <<document, loaded, mu, worker, resolving, resolved, unitVars, validated,
      validation, wf, ctx, stepIdx, task, StepOutputs, ExecutedSteps, breaker,
      healthy, compIdx, compErrors, compCall, log, fwdOk>>

\* executeParallelSteps of the outer group starts its two goroutines
RunStart ==
    /\ dpc = "step"
    /\ gor = <<>>
    /\ gor' = [g \in {RunMember} \cup RunLeaves |->
                  [pc |-> IF g \in RunInner THEN "unstarted" ELSE "start", attempt |-> 0]]
    /\ UNCHANGED <<runFrame, gctx, dpc, workerPool, result>>

\* the goroutine of the nested group: executeParallelSteps starts the
\* goroutines of the children; it holds no slot of the pool
RunSpawn ==
    /\ gor # <<>>
    /\ gor[RunMember].pc = "start"
    /\ gor' = [g \in DOMAIN gor |->
                  IF g = RunMember THEN [gor[g] EXCEPT !.pc = "waiting"]
                  ELSE IF g \in RunInner THEN [gor[g] EXCEPT !.pc = "start"]
                  ELSE gor[g]]
    /\ UNCHANGED <<runFrame, gctx, dpc, workerPool, result>>

\* executeSingleStep: e.workerPool <- struct{}{}
RunAcquire(i) ==
    /\ gor # <<>>
    /\ gor[i].pc = "start"
    /\ PoolHasRoom(workerPool)
    /\ workerPool' = workerPool + 1
    /\ gor' = [gor EXCEPT ![i].pc = "held", ![i].attempt = 1]
    /\ UNCHANGED <<runFrame, gctx, dpc, result>>

\* one attempt of the retry loop, whose call returns with err: another
\* attempt after a retryable error below the cap, else executeSingleStep
\* returns, the slot goes back, and the goroutine returns the error to its
\* errgroup
RunAttempt(i) ==
    /\ gor # <<>>
    /\ gor[i].pc = "held"
    /\ \E err \in RunOutcomes :
          IF err # NoError /\ gor[i].attempt < RunAttempts(i) /\ isRetryableError(err)
          THEN /\ gor' = [gor EXCEPT ![i].attempt = @ + 1]
               /\ UNCHANGED <<workerPool, gctx>>
          ELSE /\ gor' = [gor EXCEPT ![i].pc = "done"]
               /\ workerPool' = SlotsAfterReturn(workerPool, err)
               /\ gctx' = IF gctx = NoError THEN err ELSE gctx
    /\ UNCHANGED <<runFrame, dpc, result>>

\* g.Wait() of the nested group: all its goroutines have returned
RunWait ==
    /\ gor # <<>>
    /\ gor[RunMember].pc = "waiting"
    /\ \A i \in RunInner : gor[i].pc = "done"
    /\ gor' = [gor EXCEPT ![RunMember].pc = "done"]
    /\ UNCHANGED <<runFrame, gctx, dpc, workerPool, result>>

\* g.Wait() of the outer group, and the return of ExecuteWorkflow: with a
\* success, or with the error after a Compensate that finds nothing to do
RunFinish ==
    /\ dpc = "step"
    /\ gor # <<>>
    /\ gor[RunMember].pc = "done" /\ gor[1].pc = "done"
    /\ dpc' = "done"
    /\ result' = IF gctx = NoError THEN [result EXCEPT !.Status = "success"]
                 ELSE [result EXCEPT !.Status = CompensationStatus(<<>>),
                                     !.Error = FailureError(gctx, <<>>),
                                     !.Returned = FailureError(gctx, <<>>),
                                     !.stepErr = gctx]
    /\ UNCHANGED <<runFrame, gor, gctx, workerPool>>

RunNext ==
    \/ RunStart
    \/ RunSpawn
    \/ \E i \in RunLeaves : RunAcquire(i)
    \/ \E i \in RunLeaves : RunAttempt(i)
    \/ RunWait
    \/ RunFinish

\* the goroutines that can run do run, and every call returns
RunSpec == RunInit /\ [][RunNext]_vars /\ WF_vars(RunNext)

(***************************************************************************)
(* Properties of the saga, of the step guards and of the commit.           *)
(***************************************************************************)
\* the leaf of the workflow with a given id (ids are unique in a workflow)
LeafWithId(id) == CHOOSE l \in LeavesOf(wf.Steps) : l.ID = id

ExecutedIds == { ExecutedSteps[i].StepID : i \in 1..Len(ExecutedSteps) }

\* C1: the compensation invocations of Compensate are issued in exactly the
\* reverse of the order of ExecutedSteps: the p-th invocation is for the
\* p-th entry from the end, so for pending entries i < j the one of j comes
\* first.
C1_ReverseOrder ==
    \A p \in 1..Len(log) : log[p].index = Len(ExecutedSteps) + 1 - p

\* a failed run whose compensation invoked at least two entries
C1_Witness == dpc = "done" /\ result.stepErr # NoError /\ Len(log) >= 2

\* C2: every compensation invocation is addressed to the service of the step
\* that owns the compensation, with the compensation's method.
C2_TargetsOwningService ==
    \A p \in 1..Len(log) :
        LET leaf == LeafWithId(ExecutedSteps[log[p].index].StepID)
        IN /\ log[p].target = leaf.Service
           /\ log[p].method = leaf.Compensate.Method

\* a compensation was invoked for a step whose id is not its service's name
C2_Witness ==
    \E p \in 1..Len(log) :
        LeafWithId(ExecutedSteps[log[p].index].StepID).Service
            # ExecutedSteps[log[p].index].StepID

\* C3: a step whose guard is false leaves StepOutputs and ExecutedSteps as
\* they were, whether it is a top-level step or a child of a parallel group:
\* its output name is never recorded and it gets no entry.
C3_SkippedStepLeavesNoTrace ==
    \A l \in LeavesOf(wf.Steps) :
        (l.When # "" /\ ~evaluateCondition(l.When, StepOutputs)) =>
            /\ (l.Output # "" => ~Recorded(StepOutputs, l.Output))
            /\ l.ID \notin ExecutedIds

\* a skipped step was committed and the step after it was started
C3_Witness ==
    /\ \E l \in LeavesOf(wf.Steps) : l.When = "false" /\ l.ID \in ExecutedIds
    /\ stepIdx >= 2
    /\ dpc = "step"

\* the leaves whose forward invocation succeeded and that declare a
\* compensation
SucceededWithCompensation ==
    { l.ID : l \in { x \in LeavesOf(wf.Steps) : x.ID \in fwdOk /\ x.Compensate.set } }

\* C4: whenever no step result is waiting to be committed, ExecutedSteps has
\* exactly one entry for each leaf that succeeded and declared a
\* compensation, and nothing else: no entry of a failed, skipped or not yet
\* run step and no duplicate; so after a run in which every step succeeded
\* its length is the number of steps that declared compensations.
C4_ExactlySucceededWithCompensation ==
    dpc # "step" =>
        /\ ExecutedIds = SucceededWithCompensation
        /\ \A i, k \in 1..Len(ExecutedSteps) :
               ExecutedSteps[i].StepID = ExecutedSteps[k].StepID => i = k

\* a successful run left an entry for a step that was never invoked
C4_Witness ==
    /\ dpc = "done"
    /\ result.Status = "success"
    /\ \E i \in 1..Len(ExecutedSteps) : ExecutedSteps[i].StepID \notin fwdOk

\* the entries of ExecutedSteps that carry a compensation
Compensable == { i \in 1..Len(ExecutedSteps) : ExecutedSteps[i].Compensation.set }

\* the entries the aggregate error of Compensate lists
ListedFailures == { compErrors[e].step : e \in 1..Len(compErrors) }

\* C5: when Compensate has returned, every entry with a compensation was
\* attempted, also after an earlier attempt failed; each is compensated or
\* listed in the aggregate error, and the aggregate error is non-nil iff at
\* least one compensation failed.
C5_AttemptsEveryEntry ==
    (dpc = "done" /\ compIdx > 0) =>
        /\ \A i \in Compensable :
               /\ \E p \in 1..Len(log) : log[p].index = i
               /\ (ExecutedSteps[i].Compensated \/ i \in ListedFailures)
               /\ ~(ExecutedSteps[i].Compensated /\ i \in ListedFailures)
        /\ (Len(compErrors) > 0) <=> (\E i \in Compensable : ~ExecutedSteps[i].Compensated)

\* Compensate returned after a compensation failed and a later one, of an
\* earlier entry, succeeded
C5_Witness ==
    /\ dpc = "done"
    /\ \E e \in 1..Len(compErrors), i \in Compensable :
           i < compErrors[e].step /\ ExecutedSteps[i].Compensated

\* C6: a run that ended on a failed step has status compensated if every
\* compensation that was run succeeded and failed if at least one failed.
C6_StatusAfterFailure ==
    (dpc = "done" /\ result.stepErr # NoError) =>
        result.Status =
            IF \E p \in 1..Len(log) : ~ExecutedSteps[log[p].index].Compensated
            THEN "failed" ELSE "compensated"

\* a run ended failed with one compensation failed and another succeeded
C6_Witness ==
    /\ dpc = "done"
    /\ result.Status = "failed"
    /\ \E i \in Compensable : ExecutedSteps[i].Compensated

(***************************************************************************)
(* Properties of cancellation and of the circuit breaker.                  *)
(***************************************************************************)
\* leaf j puts a forward call on the wire in this step
StartsCall(j) == task[j].pc = "attempt" /\ task'[j].pc = "incall"

\* C7: once the workflow's scope is cancelled or timed out, no leaf starts
\* an outbound call, be it a first attempt or a retry, to a grpc or to an
\* http service.
C7_NoCallAfterCancel ==
    [][\A j \in 1..MaxLeaves : StartsCall(j) => ctx = "live"]_vars

\* a call of a leaf is on the wire although the scope was done when the
\* leaf began its attempt
C7_Witness ==
    /\ ctx # "live"
    /\ \E j \in 1..MaxLeaves :
           task[j].pc = "incall" /\ wf.Services[CurLeaf(j).Service].Type = "http"

\* C8: a run whose step returned the error of the cancelled scope ends with
\* status cancelled and without any compensation invoked.
C8_CancelledStepEndsCancelled ==
    (dpc = "done" /\ ctx # "live" /\ result.stepErr = CtxError(ctx)) =>
        /\ result.Status = "cancelled"
        /\ Len(log) = 0

\* a run ended on a step cancelled in flight after compensations were invoked
C8_Witness ==
    /\ dpc = "done"
    /\ ctx # "live"
    /\ result.stepErr = CtxError(ctx)
    /\ Len(log) > 0

\* C9: when the loop is about to start a step and finds the scope done, the
\* run ends with status cancelled and the context's error; no step is
\* started and no compensation invoked, whatever ExecutedSteps holds.
C9_CancelledBetweenSteps ==
    [][(dpc = "loop" /\ stepIdx <= Len(wf.Steps) /\ ctx # "live" /\ dpc' # dpc) =>
           /\ dpc' = "done"
           /\ result'.Status = "cancelled"
           /\ result'.Error = CtxError(ctx)
           /\ UNCHANGED <<log, ExecutedSteps, task, stepIdx, compIdx>>]_vars

\* a run ended cancelled between two steps with entries left uncompensated
C9_Witness ==
    /\ dpc = "done"
    /\ result.Status = "cancelled"
    /\ Len(ExecutedSteps) > 0
    /\ Len(log) = 0
    /\ stepIdx <= Len(wf.Steps)

\* CompensateStep puts a call on the wire in this step
StartsCompensationCall == Len(log') > Len(log) /\ log'[Len(log')].outbound

AttemptsCap(j) == wf.Services[CurLeaf(j).Service].Retry.Attempts

\* C11: every invocation of a leaf keeps the number of its invocations
\* within the attempts cap of its service, and none is made once an attempt
\* of the leaf has succeeded.
C11_AttemptsCap ==
    [][\A j \in 1..MaxLeaves :
          task'[j].calls > task[j].calls =>
              /\ task[j].pc # "ok"
              /\ task'[j].calls <= AttemptsCap(j)]_vars

\* a leaf used up a cap of several attempts
C11_Witness ==
    /\ dpc = "step"
    /\ \E j \in Kids : task[j].pc = "err" /\ task[j].calls = AttemptsCap(j)
                       /\ task[j].calls >= 2

\* the error codes the classifier deems retryable
RetryableCodes == {"unavailable", "deadline", "resource_exhausted"}

\* C12: a leaf makes another attempt only after an attempt that failed with
\* a retryable error below the attempts cap; an attempt that fails with a
\* terminal error ends the leaf with that error, which the driver gets.
C12_RetryOnlyRetryable ==
    [][/\ \A j \in 1..MaxLeaves :
              /\ task'[j].attempt > task[j].attempt /\ task[j].attempt >= 1 =>
                     /\ task'[j].err \in RetryableCodes
                     /\ task[j].attempt < AttemptsCap(j)
              /\ (task[j].pc \in {"attempt", "incall"} /\ task'[j].pc # "ok"
                  /\ task'[j].err # NoError /\ task'[j].err \notin RetryableCodes) =>
                     task'[j].pc = "err"
       /\ (dpc = "step" /\ dpc' # "step" /\ ~IsParallel /\ task[1].pc = "err") =>
              result'.stepErr = task[1].err]_vars

\* a leaf under a cap of several attempts ended at its first terminal error
C12_Witness ==
    /\ dpc = "step"
    /\ \E j \in Kids : /\ task[j].pc = "err" /\ task[j].err = "business_error"
                       /\ task[j].calls >= 2 /\ task[j].calls < AttemptsCap(j)

\* the leaves of one top-level step
StepLeaves(st) == LeavesOf(<<st>>)

\* the index of the top-level step that holds the leaf with a given id
StepIndexOf(id) ==
    CHOOSE i \in 1..Len(wf.Steps) : \E l \in StepLeaves(wf.Steps[i]) : l.ID = id

\* C13: top-level steps run in declaration order: while a step is being
\* executed, every step declared before it has returned and its output and
\* its compensation record are committed, and the records of ExecutedSteps
\* follow the declaration order of the top-level steps.
C13_CommitBeforeNextStep ==
    /\ dpc = "step" =>
           \A i \in 1..(stepIdx - 1) : \A l \in StepLeaves(wf.Steps[i]) :
               /\ l.Output # "" => Recorded(StepOutputs, l.Output)
               /\ l.Compensate.set => l.ID \in ExecutedIds
    /\ \A p, q \in 1..Len(ExecutedSteps) :
           p < q => StepIndexOf(ExecutedSteps[p].StepID) <= StepIndexOf(ExecutedSteps[q].StepID)
    /\ \A p \in 1..Len(ExecutedSteps) : StepIndexOf(ExecutedSteps[p].StepID) <= stepIdx

\* a call of the second step is on the wire, with the first step's output
\* and compensation record committed
C13_Witness ==
    /\ dpc = "step"
    /\ stepIdx = 2
    /\ \E j \in Kids : task[j].pc = "incall"
    /\ \E l \in StepLeaves(wf.Steps[1]) : l.Output # "" /\ l.ID \in ExecutedIds /\ l.ID \in fwdOk

(***************************************************************************)
(* Properties of repeated compensation.                                    *)
(***************************************************************************)
\* the number of invocations in history l for entry i
Invocations(l, i) == Cardinality({ p \in 1..Len(l) : l[p].index = i })

\* the number of Compensate calls made so far
CompensateCalls == IF dpc = "comp" THEN 1 ELSE 2

\* C14: every compensation invocation is for an entry whose compensated
\* flag is false, also in a later Compensate call, and an entry is invoked
\* at most once in each Compensate call.
C14_InvokedAtMostOnce ==
    [][Len(log') > Len(log) =>
           LET i == log'[Len(log')].index
           IN /\ ~ExecutedSteps[i].Compensated
              /\ Invocations(log', i) <= CompensateCalls]_vars

\* the second call has passed over an entry the first call compensated and
\* has invoked one whose compensation had failed
C14_Witness ==
    /\ dpc = "done"
    /\ \E i \in Compensable : ExecutedSteps[i].Compensated /\ Invocations(log, i) = 1
    /\ \E i \in Compensable : Invocations(log, i) = 2

\* C15 as stated: a second call of Compensate on the same context issues no
\* compensation invocation and leaves the context unchanged.
C15_SecondCallIsNoOp ==
    [][dpc = "comp2" => UNCHANGED <<log, ExecutedSteps, StepOutputs>>]_vars

\* C15 amended: once every entry is compensated, a second call of
\* Compensate issues no compensation invocation and leaves the context
\* unchanged.
C15_SecondCallAfterSuccessIsNoOp ==
    [][(dpc = "comp2" /\ \A i \in Compensable : ExecutedSteps[i].Compensated) =>
           UNCHANGED <<log, ExecutedSteps, StepOutputs, breaker, healthy, compErrors>>]_vars

\* the second call has gone through a context the first call compensated
\* in full
C15_Witness ==
    /\ dpc = "comp2"
    /\ compIdx > Len(ExecutedSteps)
    /\ Len(log) >= 1
    /\ Compensable # {}
    /\ \A i \in Compensable : ExecutedSteps[i].Compensated

C17_SuccessHidesNoError ==
    (dpc = "done" /\ result.Status = "success") =>
        /\ ~result.OutputErr
        /\ result.stepErr = NoError
        /\ \A l \in LeavesOf(wf.Steps) : l.ID \in fwdOk \/ l.When = "false"

\* a run returned success although an output template failed to render
C17_Witness == dpc = "done" /\ result.Status = "success" /\ result.OutputErr

(***************************************************************************)
(* Properties of parallel groups.                                          *)
(***************************************************************************)
InGroup == dpc = "step" /\ IsParallel

ChildFailed == \E j \in Kids : task[j].pc = "err"

SingleGrpcStep ==
    /\ Len(wf.Steps) = 1
    /\ Len(wf.Steps[1].Parallel) = 0
    /\ wf.Steps[1].Service = "grpcA"
    /\ wf.Steps[1].When = ""
    /\ wf.Services["grpcA"].Retry.Attempts = 5

\* the step is running, the scope is live and no breaker expiry has passed
InWindow == dpc = "step" /\ ctx = "live" /\ ~task[1].expired

\* the part of C19 up to the end of the retry loop: after three failed
\* calls in a row the breaker is open, and the fourth attempt is rejected
\* without a request on the wire and ends the leaf
BreakerTripsAndRejects ==
    SingleGrpcStep =>
        /\ (InWindow /\ task[1].pc = "attempt" /\ task[1].attempt = 4) =>
               breaker["grpcA"].state = "open" /\ task[1].sent = 3
        /\ (InWindow /\ task[1].calls = 4 /\ task[1].pc # "incall") =>
               /\ task[1].pc = "err"
               /\ task[1].err = "open_state"
               /\ task[1].sent = 3
               /\ breaker["grpcA"].state = "open"

\* C19: in the single-step scenario with attempts = 5 and every call
\* answered unavailable, the breaker is open after three failed calls, the
\* fourth attempt is rejected without an outbound call and ends the retry
\* loop, and the run returns status failed.
C19_BreakerTripScenario ==
    /\ BreakerTripsAndRejects
    /\ (SingleGrpcStep /\ dpc = "done" /\ result.stepErr = "open_state") =>
           result.Status = "failed"

\* the scenario ran to its end: the run returned after the breaker rejected
\* the step's fourth attempt
C19_Witness ==
    /\ SingleGrpcStep
    /\ dpc = "done"
    /\ result.stepErr = "open_state"
    /\ breaker["grpcA"].state = "open"
    /\ result.Status = "compensated"

(***************************************************************************)
(* Properties of the validator.                                            *)
(***************************************************************************)
\* the names a template refers to, however its braces are spaced
ReferencesOf(tmpl) == IF tmpl.set THEN {tmpl.ref} ELSE {}

\* the outputs produced by the top-level steps strictly before step i
OutputsBefore(w, i) ==
    { l.Output : l \in LeavesOf(SubSeq(w.Steps, 1, i - 1)) } \ {""}

\* some leaf refers to a name that is neither input nor variables nor an
\* output of a strictly earlier top-level step
HasIllegalReference(w) ==
    \E i \in 1..Len(w.Steps) : \E l \in LeavesOf(<<w.Steps[i]>>) :
        \E r \in ReferencesOf(l.Input) :
            r \notin {"input", "variables"} /\ r \notin OutputsBefore(w, i)

\* C20: ValidateDAG returns an error for every workflow in which a step's
\* input template refers to an output that no strictly earlier step
\* produces, such as the output of a later step or of a sibling of the same
\* parallel group.
C20_RejectsIllegalReferences ==
    (validation # "unchecked" /\ HasIllegalReference(validated)) => validation # NoError

\* ValidateDAG accepted a workflow whose first step refers to the output of
\* the second
C20_Witness ==
    /\ validation = NoError
    /\ Len(validated.Steps) = 2
    /\ validated.Steps[1].Input = Template(TRUE, "ob")
    /\ validated.Steps[1].Output = "oa"
    /\ validated.Steps[2].Output = "ob"

(***************************************************************************)
(* Properties of the concurrent parts: the parallel group, the worker      *)
(* pool, the breaker and the health flag.                                  *)
(***************************************************************************)
\* C24: Compensate runs only after all work of the failed step has come to
\* rest.  When ExecuteStep returns, every child of the step has returned, and
\* while Compensate runs no leaf holds a worker-pool slot, no leaf is in any
\* position of ExecuteStep, StepOutputs is not written and nothing is
\* appended to ExecutedSteps.
C24_CompensateAfterQuiescence ==
    [][ /\ (dpc = "step" /\ dpc' # "step")
            => \A j \in Kids : task[j].pc \in {"ok", "skip", "err"}
        /\ (dpc' = "comp")
            => /\ workerPool' = 0
               /\ \A j \in 1..MaxLeaves : task'[j].pc = "none"
        /\ (dpc = "comp")
            => /\ StepOutputs' = StepOutputs
               /\ Len(ExecutedSteps') = Len(ExecutedSteps)
               /\ \A i \in 1..Len(ExecutedSteps) :
                    ExecutedSteps'[i].StepID = ExecutedSteps[i].StepID ]_vars

\* Compensate runs after a parallel group failed of which a sibling had
\* succeeded and committed
C24_Witness ==
    /\ dpc = "comp"
    /\ Len(CurStep.Parallel) > 0
    /\ \E j \in Kids : CurLeaf(j).ID \in fwdOk /\ CurLeaf(j).Compensate.set
    /\ Len(log) > 0

\* a forward call of leaf j to service n returns with a failure that counts
\* for the current generation of the breaker
TrialFails(j, n) ==
    /\ dpc = "step" /\ j \in Kids
    /\ CurLeaf(j).Service = n
    /\ task[j].pc = "incall" /\ ~task[j].stale
    /\ task'[j].pc \in {"attempt", "err"}

\* InvokeMethod is called for service n by leaf j
CallsService(j, n) ==
    /\ dpc = "step" /\ j \in Kids
    /\ CurLeaf(j).Service = n
    /\ task'[j].calls = task[j].calls + 1

\* C26: the breaker of a service leaves closed only for open, and only on a
\* failure that brings the counts of the current window to at least 3
\* requests of which at least 60% failed; it leaves open only for half-open,
\* and a call that finds it open and leaves it open puts no request on the
\* wire and is rejected, unless the 30 s had passed and the call was a trial
\* that failed at once; in half-open it counts at most 3 trial requests, a
\* failed trial reopens it, and it closes only on the third success in a row.
C26_BreakerStateMachine ==
    [][ \A n \in ServiceNames :
         LET b == breaker[n]
             b2 == breaker'[n]
         IN /\ (b.state = "closed" /\ b2.state # "closed")
                => /\ b2.state = "open"
                   /\ \/ /\ b.Requests >= 3
                         /\ (b.TotalFailures + 1) * 5 >= b.Requests * 3
                      \/ /\ b.Requests + 1 >= 3
                         /\ (b.TotalFailures + 1) * 5 >= (b.Requests + 1) * 3
            /\ (b.state = "open")
                => /\ b2.state \in {"open", "half-open"}
                   /\ (b2.state = "open")
                        => \A j \in 1..MaxLeaves :
                             CallsService(j, n)
                               => /\ task'[j].sent = task[j].sent
                                  /\ \/ task'[j].err = "open_state" /\ task'[j].pc = "err"
                                     \/ task'[j].expired
                   /\ (b2.state = "open" /\ Len(log') > Len(log)
                                         /\ log'[Len(log')].target = n)
                        => ~log'[Len(log')].outbound
            /\ (b.state = "half-open" /\ b2.state = "closed")
                => b.ConsecutiveSuccesses = 2 /\ b.Requests = 3
            /\ (b.state = "half-open")
                => \A j \in 1..MaxLeaves : TrialFails(j, n) => b2.state = "open"
            /\ (b.state = "half-open" /\ b.Requests >= 3)
                => \A j \in 1..MaxLeaves :
                     CallsService(j, n)
                       => /\ task'[j].err = "too_many_requests"
                          /\ task'[j].pc = "err"
                          /\ task'[j].sent = task[j].sent
            /\ (b2.state = "half-open")
                => b2.Requests <= 3 /\ b2.ConsecutiveSuccesses <= 2 ]_vars

\* the breaker has been open, is half-open, has admitted its three trials,
\* two of them have succeeded, and a fourth call has been rejected
C26_Witness ==
    /\ breaker["grpcA"].state = "half-open"
    /\ breaker["grpcA"].Requests = 3
    /\ breaker["grpcA"].ConsecutiveSuccesses = 2
    /\ \E j \in 1..MaxLeaves : task[j].err = "too_many_requests"

\* a forward call of leaf j to service n ends with error err: it returns
\* from the wire, or InvokeMethod fails at once
FailsWith(j, n, err) ==
    /\ dpc = "step" /\ j \in Kids
    /\ CurLeaf(j).Service = n
    /\ \/ task[j].pc = "incall"
       \/ task[j].pc = "attempt" /\ task'[j].calls = task[j].calls + 1
    /\ task'[j].pc \in {"attempt", "err"}
    /\ task'[j].err = err

\* C27: the health flag of a service is false after every step in which its
\* breaker went to open and after every step in which a call to it failed
\* with Unavailable or DeadlineExceeded, it is true after every step in
\* which its breaker went to closed, and it is false in every state in which
\* the breaker is open.
C27_HealthFollowsBreaker ==
    [][ \A n \in ServiceNames :
          /\ (breaker[n].state # "open" /\ breaker'[n].state = "open") => ~healthy'[n]
          /\ (breaker[n].state # "closed" /\ breaker'[n].state = "closed") => healthy'[n]
          /\ (wf.Services[n].Type = "grpc")
               => \A j \in 1..MaxLeaves :
                    (FailsWith(j, n, "unavailable") \/ FailsWith(j, n, "deadline"))
                      => ~healthy'[n]
          /\ (breaker[n].state = "open") => ~healthy[n]
          /\ (breaker'[n].state = "open") => ~healthy'[n] ]_vars

\* the breaker of the gRPC service is open, its flag is false, and the call
\* that met the open breaker was rejected
C27_Witness ==
    /\ breaker["grpcA"].state = "open"
    /\ ~healthy["grpcA"]
    /\ \E j \in 1..MaxLeaves : task[j].err = "open_state"

\* the leaves that hold a slot, and those with a call under way
Holding == { p \in DOMAIN worker : worker[p] \in {"held", "incall"} }
Invoking == { p \in DOMAIN worker : worker[p] = "incall" }

\* C25: at most 10 leaf invocations are under way across one Executor, and
\* a leaf has a call under way only while it holds one of the 10 slots: the
\* slots taken are exactly those of the leaves between the send and the
\* receive, and they are never more than 10.
C25_PoolBoundsInvocations ==
    /\ Cardinality(Invoking) <= 10
    /\ Cardinality(Holding) = workerPool
    /\ workerPool <= 10

\* the pool is full, ten calls are under way and another leaf waits
C25_Witness ==
    /\ workerPool = 10
    /\ Cardinality(Invoking) = 10
    /\ \E p \in DOMAIN worker : worker[p] = "idle"

(***************************************************************************)
(* Properties of the workflow loader.                                      *)
(***************************************************************************)
\* two leaves of the document, at any nesting, with the same output name
HasDuplicateOutputs(w) ==
    LET ls == LeafSeq(w.Steps)
    IN \E i, j \in 1..Len(ls) : i # j /\ ls[i].Output # "" /\ ls[i].Output = ls[j].Output

\* two leaves of the document, at any nesting, with the same id
HasDuplicateIds(w) ==
    LET ls == LeafSeq(w.Steps)
    IN \E i, j \in 1..Len(ls) : i # j /\ ls[i].ID # "" /\ ls[i].ID = ls[j].ID

\* C21: the loader returns an error for every document in which two steps,
\* at any nesting, declare the same output name.
C21_RejectsDuplicateOutputs ==
    (loaded # "unloaded" /\ HasDuplicateOutputs(document)) => loaded # NoError

\* a document whose two steps write the output oa under different ids has
\* been loaded without error
C21_Witness ==
    /\ loaded = NoError
    /\ Len(document.Steps) = 2
    /\ document.Steps[1].ID = "a" /\ document.Steps[2].ID = "b"
    /\ document.Steps[1].Output = "oa" /\ document.Steps[2].Output = "oa"

\* C22: the loader returns an error for every document in which two leaf
\* steps, at the top level or inside parallel groups, have the same id, so
\* that the document is not stored for execution.
C22_RejectsDuplicateIds ==
    (loaded # "unloaded" /\ HasDuplicateIds(document)) => loaded # NoError

\* a document with a parallel group whose two children have the id a has
\* been loaded without error
C22_Witness ==
    /\ loaded = NoError
    /\ Len(document.Steps) = 1
    /\ Len(document.Steps[1].Parallel) = 2
    /\ document.Steps[1].Parallel[1].ID = "a"
    /\ document.Steps[1].Parallel[2].ID = "a"

(***************************************************************************)
(* Properties of the template resolver and of the guards.                  *)
(***************************************************************************)
\* the names recorded in StepOutputs at the time of the call
RecordedNames == { n \in DOMAIN resolving.outs : resolving.outs[n] # "unset" }

\* the template of the call refers to a key that the scope it was rendered
\* against does not hold: a top-level name, or a field of a map in the scope
RefersToAbsentKey ==
    /\ resolving.tmpl.kind = "expr"
    /\ \/ resolving.tmpl.key \notin resolved.scope
       \/ /\ resolving.tmpl.field \notin {"", "id"}
          /\ \/ resolving.tmpl.key = "input"
             \/ resolving.outs[resolving.tmpl.key] = "map"

\* C28: rendering a template that refers to a key absent from the scope
\* returns an error, never a text; in the input of a step the error ends the
\* step before its service is invoked.
C28_MissingKeyIsAnError ==
    (resolved.done /\ RefersToAbsentKey) => resolved.err

\* the input of a step refers to a name that is in no scope, and
\* resolveStepInput returned the text "<no value>" without error
C28_Witness ==
    /\ resolving.place = "input"
    /\ resolving.tmpl = Expression("zz", "")
    /\ resolved.done /\ ~resolved.err
    /\ resolved.text = "<no value>"

\* C29: in each of the four places the resolver is used, the scope holds
\* input and every recorded step output as a top-level name.
C29_ScopeHoldsInputAndOutputs ==
    resolved.done => resolved.scope = {"input"} \cup RecordedNames

\* a guard that reads the field id of the recorded output o1 was rendered
\* to "<no value>", and the guard is false
C29_Witness ==
    /\ resolving.place = "when"
    /\ resolving.tmpl = Expression("o1", "id")
    /\ resolving.outs["o1"] = "map"
    /\ resolved.done /\ ~resolved.err
    /\ resolved.text = "<no value>"
    /\ ~resolved.cond

\* C30: evaluateCondition returns true iff the rendered guard text is the
\* literal true or is the name of a recorded output whose value is the
\* boolean true, and false in every other case.
C30_GuardTruth ==
    (resolving.place = "when" /\ resolved.done /\ ~resolved.err)
        => (resolved.cond <=>
              \/ resolved.text = "true"
              \/ /\ resolved.text \in RecordedNames
                 /\ resolving.outs[resolved.text] = "bool_true")

\* the guard text is the literal true, an output named true holds the
\* boolean false, and evaluateCondition returned false
C30_Witness ==
    /\ resolving.place = "when"
    /\ resolving.tmpl = Literal("true")
    /\ resolving.outs["true"] = "bool_false"
    /\ resolved.done /\ ~resolved.err
    /\ ~resolved.cond

(***************************************************************************)
(* C23: the writes to step_outputs and the appends to executed_steps of    *)
(* one ExecutionContext are mutually exclusive, and no read of             *)
(* step_outputs made during template resolution by a parallel sibling      *)
(* overlaps such a write, in a parallel group and in parallel groups       *)
(* nested inside a parallel group: at no time are two goroutines each in   *)
(* a write or an append, nor one in a write while another reads.           *)
(***************************************************************************)
C23_WritesAreExclusive ==
    /\ Cardinality(WritingOutputs \cup AppendingExecuted) <= 1
    /\ WritingOutputs # {} => ReadingOutputs = {}

\* a goroutine of the nested group writes its output while a goroutine of
\* the outer group runs its step
C23_Witness ==
    /\ \E g \in InnerLeaves : gor # <<>> /\ gor[g].pc = "writing"
    /\ \E h \in OuterLeaves : gor[h].pc \notin {"start", "done", "failed", "fatal"}

\* the leaves (by position) whose output the input of leaf i refers to
RefersTo(ls, i) ==
    { j \in 1..Len(ls) : ls[j].Output # "" /\ ls[j].Output \in ReferencesOf(ls[i].Input) }

\* the leaves reached from the leaves in from along k references or fewer
RECURSIVE ReferredFrom(_, _, _)
ReferredFrom(ls, from, k) ==
    IF k = 0 THEN from
    ELSE ReferredFrom(ls, from \cup UNION { RefersTo(ls, j) : j \in from }, k - 1)

\* the template references between the steps of w form a cycle
HasReferenceCycle(w) ==
    LET ls == LeafSeq(w.Steps)
    IN \E i \in 1..Len(ls) : i \in ReferredFrom(ls, RefersTo(ls, i), Len(ls))

\* C31: for a workflow whose steps all have an id of their own, ValidateDAG
\* returns a cycle error exactly when the template references between the
\* steps form a cycle, whatever the ids and the output names of the steps.
C31_CycleErrorIffCycle ==
    validation \notin {"unchecked", "missing_id", "duplicate_id"}
        => (validation = "cycle" <=> HasReferenceCycle(validated))

\* ValidateDAG accepted two steps of which each reads the output of the other
C31_Witness ==
    /\ validation = NoError
    /\ Len(validated.Steps) = 2
    /\ validated.Steps[1] = ValidatedStep("a", "oa", Template(TRUE, "ob"))
    /\ validated.Steps[2] = ValidatedStep("b", "ob", Template(TRUE, "oa"))

\* the step at position i (from 1) of a list as Parse is said to return
\* it: with the id "step_<i-1>" when it was declared without one
RECURSIVE WithAutoIds(_)
WithAutoIds(steps) ==
    [i \in 1..Len(steps) |->
        IF Len(steps[i].Parallel) > 0
        THEN [steps[i] EXCEPT !.Parallel = WithAutoIds(steps[i].Parallel)]
        ELSE FilledCopy(steps[i], i - 1)]

\* C32: in the Workflow that Parse returned and LoadWorkflow stored, every
\* leaf step declared without an id carries the id "step_i" of its index,
\* and so every leaf has a non-empty id.
C32_AutoFilledIds ==
    (loaded # "unloaded" /\ document.Name \in DOMAIN workflows)
        => /\ workflows[document.Name].Steps = WithAutoIds(document.Steps)
           /\ \A l \in LeavesOf(workflows[document.Name].Steps) : l.ID # ""

\* a workflow was loaded with a leaf declared without an id, and the stored
\* leaf has the empty id
C32_Witness ==
    /\ loaded = NoError
    /\ document.Name \in DOMAIN workflows
    /\ \E l \in LeavesOf(document.Steps) : l.ID = ""
    /\ \E l \in LeavesOf(workflows[document.Name].Steps) : l.ID = ""

\* C37: when LoadWorkflow returns an error, the orchestrator is as it was
\* before the call: the workflow is not among the loaded workflows and no
\* service of it has been registered.
C37_FailedLoadChangesNothing ==
    [][loaded' \notin {"unloaded", NoError}
          => /\ workflows' = workflows
             /\ registered' = registered
             /\ document.Name \notin DOMAIN workflows']_vars

\* LoadWorkflow failed to register a service and the workflow is listed
C37_Witness ==
    /\ loaded = "already_registered"
    /\ document.Name \in DOMAIN workflows

\* the sleep the retry loop is said to make before attempt k, in seconds
SleepSeconds(k, backoff) ==
    IF backoff # "exponential" THEN 1
    ELSE IF k - 1 >= 5 THEN 30 ELSE 2 ^ (k - 1)

\* C33: before attempt k >= 2 of a leaf the sleep is 1 second when the
\* backoff is constant or unspecified, and min(1s * 2^(k-1), 30s) when it is
\* exponential; for every k it is at least 1 s and at most 30 s.
C33_BackoffWithinBounds ==
    returned # <<>>
        => /\ returned = Seconds(SleepSeconds(call.k, call.Backoff))
           /\ ~Less64(returned, Second)
           /\ ~Less64(Seconds(30), returned)

\* the backoff before a late attempt of an exponential retry was computed
C33_Witness ==
    /\ returned # <<>>
    /\ call.Backoff = "exponential"
    /\ call.k >= 35

\* the errors said to be retryable: the transport codes unavailable,
\* deadline exceeded and resource exhausted, a network-level connect or
\* timeout error, an HTTP 5xx, 408 or 429
SaidRetryable(e) ==
    \/ e.source = "grpc" /\ e.code \in {"unavailable", "deadline", "resource_exhausted"}
    \/ e.source = "net"
    \/ e.source = "http" /\ (e.code >= 500 \/ e.code \in {408, 429})

\* C34: the classifier of the retry loop deems an error retryable exactly
\* when it is unavailable, deadline exceeded or resource exhausted, a
\* network-level connect or timeout error, or an HTTP 5xx, 408 or 429.
C34_ClassifierMatches ==
    returned # <<>> => (returned[1] <=> SaidRetryable(call.err))

\* an attempt that ended with HTTP 503 before the last attempt was not
\* followed by another
C34_Witness ==
    /\ returned = <<FALSE, FALSE>>
    /\ call.err = [source |-> "http", code |-> 503]
    /\ call.attempt < call.retryAttempts

\* C35: on a pool of size n that has not been closed, the k-th call of
\* GetConnection returns the connection at index (k-1) mod n, for every k,
\* also after the 32-bit counter has wrapped around, and the index lies in
\* [0, n).
C35_RoundRobinIndex ==
    (returned # <<>> /\ returned[2])
        => /\ returned[1] = (connPool.calls + connPool.size - 1) % connPool.size
           /\ returned[1] >= 0
           /\ returned[1] < connPool.size

\* GetConnection was called on a pool of the registry's size whose counter
\* had wrapped around
C35_Witness ==
    /\ returned # <<>>
    /\ returned[2]
    /\ connPool.size = 5
    /\ connPool.current < 0

\* every goroutine of the group has returned and the group has failed:
\* g.Wait() returns the error and the driver starts the compensation
GroupFailed ==
    /\ \A g \in Goroutines : gor[g].pc \in {"done", "failed"}
    /\ \E g \in OuterLeaves \cup {GroupMember} : gor[g].pc = "failed"

\* the leaves of the group whose forward invocation succeeded; each of
\* them declares a compensation
GroupSucceeded == { g \in GroupLeaves : gor[g].output = "bool_true" }

\* C36: when a step fails and the compensation starts, every leaf whose
\* forward invocation succeeded and that declared a compensation has an
\* entry in executed_steps, a sibling that completed after another sibling
\* of its group had failed included.
C36_SucceededLeavesAreRecorded ==
    GroupFailed
        => \A g \in GroupSucceeded :
               \E i \in 1..Len(ExecutedSteps) : ExecutedSteps[i].StepID = IdOf(g)

\* the group failed, two leaves had succeeded, and ExecutedSteps holds one
\* entry
C36_Witness ==
    /\ gor # <<>>
    /\ GroupFailed
    /\ Cardinality(GroupSucceeded) = 2
    /\ Len(ExecutedSteps) = 1

\* CancelWorkflow has returned nil for the run
CancelReturned == call = <<"CancelWorkflow">>

\* C38: after CancelWorkflow(id) has returned nil for a running workflow,
\* the run starts no further step, and the result ExecuteWorkflow returns
\* has the status cancelled: the status CancelWorkflow wrote is never
\* overwritten with success, compensated or failed.
C38_CancelWorkflowSticks ==
    /\ [][CancelReturned => ~(dpc = "loop" /\ dpc' = "step")]_vars
    /\ []((CancelReturned /\ dpc = "done") => result.Status = "cancelled")

\* CancelWorkflow returned nil before the last step was started, and the
\* run ended with the status success
C38_Witness ==
    /\ CancelReturned
    /\ dpc = "done"
    /\ result.Status = "success"

\* the call of leaf j to the gRPC service n returns with success
SucceedsOn(j, n) ==
    /\ dpc = "step" /\ j \in Kids
    /\ CurLeaf(j).Service = n
    /\ wf.Services[n].Type = "grpc"
    /\ task[j].pc = "incall"
    /\ task'[j].pc = "ok"

\* C39: after a call to service S has succeeded while the breaker of S is
\* closed, IsHealthy(S) is true: a failure with Unavailable or
\* DeadlineExceeded that did not trip the breaker does not leave the
\* service unhealthy once a later call succeeds.
C39_SuccessRestoresHealth ==
    [][ \A n \in ServiceNames : \A j \in 1..MaxLeaves :
          (SucceedsOn(j, n) /\ breaker'[n].state = "closed") => healthy'[n] ]_vars

\* a call to the gRPC service has succeeded, its breaker is closed and has
\* counted a failure, and the service is marked unhealthy
C39_Witness ==
    /\ dpc = "step"
    /\ \E j \in Kids : task[j].pc = "ok" /\ CurLeaf(j).Service = "grpcA"
    /\ breaker["grpcA"].state = "closed"
    /\ breaker["grpcA"].TotalFailures > 0
    /\ ~healthy["grpcA"]

\* the leaves inside executeSingleStep
RunHolding == { i \in DOMAIN gor : gor[i].pc = "held" }

====
